---- MODULE Spec2Model ----
(***************************************************************************)
(* Model of the Northern Territories news backend: the Lambda pipeline of  *)
(* app/lambda_handler.py (fetch per keyword, merge into the persisted S3   *)
(* collection), the feed pipeline of app/fetcher.py, app/service.py and    *)
(* scripts/fetch_news.py, and the date normalizers.                        *)
(*                                                                         *)
(* Strings the code inspects are modelled by what the code reads of them:  *)
(*   - a title is a sequence of one-character strings, so that strip(),    *)
(*     lower() and rsplit(" - ") are computed, not assumed;                *)
(*   - a URL is the six-part record urlparse() yields;                     *)
(*   - an ISO-8601 timestamp string is [local, off]: the wall-clock part   *)
(*     (in whole ticks) and the UTC-offset suffix ("" when naive). Python  *)
(*     compares such strings character by character, which StrKey encodes. *)
(* Sub-tick fractions of a timestamp are not modelled.                     *)
(***************************************************************************)
EXTENDS Integers, Sequences, FiniteSets, TLC

(***************************************************************************)
(* Bounds of the model.                                                    *)
(***************************************************************************)
\* retention cap, scaled down from the program's 500
MAX_ARTICLES == 2
\* longest existing list handed to merge_articles in MergeSpec
MaxExisting == 3
\* longest new batch handed to merge_articles in MergeSpec
MaxNew == 2
\* last tick of the wall clock
MaxNow == 1
\* most entries one keyword feed returns in one fetch
MaxEntries == 1

(***************************************************************************)
(* Generic helpers.                                                        *)
(***************************************************************************)
Min(a, b) == IF a <= b THEN a ELSE b

Range(s) == {s[i] : i \in DOMAIN s}

\* all sequences over S of length at most n
BSeq(S, n) == UNION {[1..k -> S] : k \in 0..n}

\* s[:n]
Take(s, n) == SubSeq(s, 1, Min(n, Len(s)))

RECURSIVE Flatten(_)
Flatten(ss) == IF ss = <<>> THEN <<>> ELSE Head(ss) \o Flatten(Tail(ss))

\* sorting works on a list paired with its sort keys, [k |-> key, v |-> element]
Unkeyed(ps) == [i \in DOMAIN ps |-> ps[i].v]

\* list.sort(key=..., reverse=True) / sorted(..., reverse=True): stable, so
\* an element goes behind every element whose key is >= its own.
RECURSIVE InsertDesc(_, _)
InsertDesc(p, ps) ==
    IF ps = <<>> THEN <<p>>
    ELSE IF Head(ps).k >= p.k THEN <<Head(ps)>> \o InsertDesc(p, Tail(ps))
    ELSE <<p>> \o ps

RECURSIVE SortDescFrom(_, _)
SortDescFrom(done, rest) ==
    IF rest = <<>> THEN done
    ELSE SortDescFrom(InsertDesc(Head(rest), done), Tail(rest))

SortDesc(ps) == Unkeyed(SortDescFrom(<<>>, ps))

\* sorted(..., reverse=False): stable ascending
RECURSIVE InsertAsc(_, _)
InsertAsc(p, ps) ==
    IF ps = <<>> THEN <<p>>
    ELSE IF Head(ps).k <= p.k THEN <<Head(ps)>> \o InsertAsc(p, Tail(ps))
    ELSE <<p>> \o ps

RECURSIVE SortAscFrom(_, _)
SortAscFrom(done, rest) ==
    IF rest = <<>> THEN done
    ELSE SortAscFrom(InsertAsc(Head(rest), done), Tail(rest))

SortAsc(ps) == Unkeyed(SortAscFrom(<<>>, ps))

(***************************************************************************)
(* Strings: titles.                                                        *)
(***************************************************************************)
\* str.lower() on one character
LowerChar(c) ==
    CASE c = "K" -> "k"
      [] c = "B" -> "b"
      [] c = "C" -> "c"
      [] c = "N" -> "n"
      [] OTHER -> c

\* str.lower()
Lower(t) == [i \in DOMAIN t |-> LowerChar(t[i])]

RECURSIVE LStrip(_)
LStrip(t) == IF t # <<>> /\ Head(t) = " " THEN LStrip(Tail(t)) ELSE t

RECURSIVE RStrip(_)
RStrip(t) ==
    IF t # <<>> /\ t[Len(t)] = " " THEN RStrip(SubSeq(t, 1, Len(t) - 1)) ELSE t

\* str.strip()
Strip(t) == RStrip(LStrip(t))

(***************************************************************************)
(* Strings: URLs, as urlparse() splits them.                               *)
(***************************************************************************)
Url(scheme, netloc, path, params, query, fragment) ==
    [scheme |-> scheme, netloc |-> netloc, path |-> path,
     params |-> params, query |-> query, fragment |-> fragment]

\* the empty string
NoUrl == Url("", "", "", "", "", "")

\* https://a/1, https://a/1?ref=xyz, https://a/1#top, https://a/2, https://a/3
UrlA1 == Url("https", "a", "/1", "", "", "")
UrlA1Query == Url("https", "a", "/1", "", "ref=xyz", "")
UrlA1Fragment == Url("https", "a", "/1", "", "", "top")
UrlA2 == Url("https", "a", "/2", "", "", "")
UrlA3 == Url("https", "a", "/3", "", "", "")

\* lambda_handler.normalize_url: scheme, netloc and path are kept
normalize_url(url) ==
    IF url = NoUrl THEN url
    ELSE Url(url.scheme, url.netloc, url.path, "", "", "")

(***************************************************************************)
(* Timestamps.                                                             *)
(***************************************************************************)
\* UTC-offset suffixes of datetime.isoformat(); "" is a naive datetime
Offsets == {"", "+00:00", "+01:00", "-01:00"}

OffsetHours(off) ==
    CASE off = "+01:00" -> 1
      [] off = "-01:00" -> 0 - 1
      [] OTHER -> 0

\* rank of the suffix in character order: "" < "+00:00" < "+01:00" < "-01:00"
\* ('+' is 0x2B, '-' is 0x2D, and a prefix sorts first)
OffsetRank(off) ==
    CASE off = "" -> 0
      [] off = "+00:00" -> 1
      [] off = "+01:00" -> 2
      [] off = "-01:00" -> 3

Stamp(local, off) == [local |-> local, off |-> off]

\* the instant a timestamp denotes (a naive one is read as UTC)
Instant(ts) == ts.local - OffsetHours(ts.off)

\* order-preserving code of the ISO string: Python's str comparison of two
\* isoformat() strings compares the wall-clock part first, then the suffix
StrKey(ts) == ts.local * 4 + OffsetRank(ts.off)

\* datetime.now(timezone.utc) at clock tick t
UtcNow(t) == Stamp(t, "+00:00")

(***************************************************************************)
(* Articles of the Lambda pipeline (dicts).                                *)
(***************************************************************************)
Article(title, url, source, publishedAt) ==
    [title |-> title, url |-> url, source |-> source, publishedAt |-> publishedAt]

\* key of merged.sort: x.get('publishedAt', '')
PublishedAtKey(a) == StrKey(a.publishedAt)

ByPublishedAt(s) == [i \in DOMAIN s |-> [k |-> PublishedAtKey(s[i]), v |-> s[i]]]

\* AcceptedNew skipping an article only when its URL and its title are both seen
RECURSIVE AcceptedNewBothSeen(_, _, _)
AcceptedNewBothSeen(new_articles, seen_urls, seen_titles) ==
    IF new_articles = <<>> THEN <<>>
    ELSE LET article == Head(new_articles)
             normalized == normalize_url(article.url)
             title_lower == Lower(article.title)
         IN IF normalized \in seen_urls /\ title_lower \in seen_titles
            THEN AcceptedNewBothSeen(Tail(new_articles), seen_urls, seen_titles)
            ELSE <<article>> \o AcceptedNewBothSeen(Tail(new_articles),
                                                    seen_urls \cup {normalized},
                                                    seen_titles \cup {title_lower})

\* AcceptedNew that does not extend the seen sets within the batch
RECURSIVE AcceptedNewNoBatchSeen(_, _, _)
AcceptedNewNoBatchSeen(new_articles, seen_urls, seen_titles) ==
    IF new_articles = <<>> THEN <<>>
    ELSE LET article == Head(new_articles)
             normalized == normalize_url(article.url)
             title_lower == Lower(article.title)
         IN IF normalized \in seen_urls \/ title_lower \in seen_titles
            THEN AcceptedNewNoBatchSeen(Tail(new_articles), seen_urls, seen_titles)
            ELSE <<article>> \o AcceptedNewNoBatchSeen(Tail(new_articles),
                                                       seen_urls, seen_titles)

\* lambda_handler.merge_articles, lines 266-291: the new articles appended to
\* the copy of existing, given the seen sets so far
RECURSIVE AcceptedNew(_, _, _)
AcceptedNew(new_articles, seen_urls, seen_titles) ==
    IF new_articles = <<>> THEN <<>>
    ELSE LET article == Head(new_articles)
             normalized == normalize_url(article.url)
             title_lower == Lower(article.title)
         IN IF normalized \in seen_urls \/ title_lower \in seen_titles
            THEN AcceptedNew(Tail(new_articles), seen_urls, seen_titles)
            ELSE <<article>> \o AcceptedNew(Tail(new_articles),
                                            seen_urls \cup {normalized},
                                            seen_titles \cup {title_lower})

\* the articles merge_articles appends for (existing, new_articles)
MergeAppended(existing, new_articles) ==
    AcceptedNew(new_articles,
                {normalize_url(a.url) : a \in Range(existing)},
                {Lower(a.title) : a \in Range(existing)})

\* merged before the sort (line 293)
MergeUnsorted(existing, new_articles) ==
    existing \o MergeAppended(existing, new_articles)

\* merged.sort(key=publishedAt string, reverse=True)
MergeSorted(existing, new_articles) ==
    SortDesc(ByPublishedAt(MergeUnsorted(existing, new_articles)))

\* merge_articles deduplicating the whole merged list, existing included
merge_articles_dedup_all(existing, new_articles) ==
    LET merged == SortDesc(ByPublishedAt(AcceptedNew(existing \o new_articles,
                                                     {}, {})))
    IN IF Len(merged) > MAX_ARTICLES THEN Take(merged, MAX_ARTICLES) ELSE merged

\* lambda_handler.merge_articles
merge_articles(existing, new_articles) ==
    LET merged == MergeSorted(existing, new_articles)
    IN IF Len(merged) > MAX_ARTICLES THEN Take(merged, MAX_ARTICLES) ELSE merged

(***************************************************************************)
(* Lambda pipeline: one feed entry to one article.                         *)
(***************************************************************************)
\* the " - " separator of a Google News title
Separator == <<" ", "-", " ">>

\* positions where " - " starts in title
SeparatorAt(title) ==
    {i \in 1..(Len(title) - 2) : SubSeq(title, i, i + 2) = Separator}

\* "Google News" as a title-typed string (one symbol)
GoogleNews == <<"Google News">>

\* extract_source_from_title splitting with split(" - ", 1): on the first
\* occurrence
extract_source_from_title_first(title) ==
    IF SeparatorAt(title) # {}
    THEN LET i == CHOOSE j \in SeparatorAt(title) :
                      \A k \in SeparatorAt(title) : j <= k
         IN [title |-> Strip(SubSeq(title, 1, i - 1)),
             source |-> Strip(SubSeq(title, i + 3, Len(title)))]
    ELSE [title |-> title, source |-> GoogleNews]

\* lambda_handler.extract_source_from_title: rsplit(" - ", 1)
extract_source_from_title(title) ==
    IF SeparatorAt(title) # {}
    THEN LET i == CHOOSE j \in SeparatorAt(title) :
                      \A k \in SeparatorAt(title) : k <= j
         IN [title |-> Strip(SubSeq(title, 1, i - 1)),
             source |-> Strip(SubSeq(title, i + 3, Len(title)))]
    ELSE [title |-> title, source |-> GoogleNews]

\* the <pubDate> text of an entry: an RFC 2822 date, an ISO-8601 date, or
\* text that is neither (also the "" of a missing field)
Rfc2822(local, zone) == [fmt |-> "rfc2822", local |-> local, zone |-> zone]
Iso8601(local, zone) == [fmt |-> "iso", local |-> local, zone |-> zone]
NotADate == [fmt |-> "none", local |-> 0, zone |-> ""]

\* email.utils.parsedate_to_datetime: "-0000" yields a naive datetime
parsedate_to_datetime(s) ==
    IF s.fmt = "rfc2822"
    THEN [ok |-> TRUE,
          value |-> Stamp(s.local,
                          CASE s.zone = "GMT" -> "+00:00"
                            [] s.zone = "+0100" -> "+01:00"
                            [] s.zone = "-0100" -> "-01:00"
                            [] OTHER -> "")]
    ELSE [ok |-> FALSE, value |-> Stamp(0, "")]

\* datetime.fromisoformat(s.replace('Z', '+00:00'))
fromisoformat_z(s) ==
    IF s.fmt = "iso"
    THEN [ok |-> TRUE,
          value |-> Stamp(s.local, IF s.zone = "Z" THEN "+00:00" ELSE s.zone)]
    ELSE [ok |-> FALSE, value |-> Stamp(0, "")]

\* lambda_handler.parse_pub_date at clock tick t
parse_pub_date(pub_date_str, t) ==
    IF parsedate_to_datetime(pub_date_str).ok
    THEN parsedate_to_datetime(pub_date_str).value
    ELSE IF fromisoformat_z(pub_date_str).ok
    THEN fromisoformat_z(pub_date_str).value
    ELSE UtcNow(t)

Entry(title, link, published) ==
    [title |-> title, link |-> link, published |-> published]

\* lambda_handler.fetch_google_news_rss, lines 146-181: the loop over
\* feed.entries
RECURSIVE ParseKeywordEntries(_, _)
ParseKeywordEntries(entries, t) ==
    IF entries = <<>> THEN <<>>
    ELSE LET entry == Head(entries)
             raw_title == Strip(entry.title)
             split == extract_source_from_title(raw_title)
             link == entry.link
             rest == ParseKeywordEntries(Tail(entries), t)
         IN IF raw_title = <<>> THEN rest
            ELSE IF link = NoUrl THEN rest
            ELSE <<Article(split.title, link, split.source,
                           parse_pub_date(entry.published, t))>> \o rest

\* what one GET of the keyword feed comes to
FetchOutcome(kind, entries) == [kind |-> kind, entries |-> entries]

\* lambda_handler.fetch_google_news_rss: every failure returns []
fetch_google_news_rss(outcome, t) ==
    IF outcome.kind = "ok" THEN ParseKeywordEntries(outcome.entries, t)
    ELSE <<>>

(***************************************************************************)
(* Inputs.                                                                 *)
(***************************************************************************)
\* the configured keywords (the program lists five)
SEARCH_KEYWORDS == <<"kw1", "kw2">>

\* entries a keyword feed may return
LambdaEntries ==
    { Entry(<<"K", " ", "-", " ", "N">>, UrlA1Query, NotADate),
      Entry(<<"k">>, UrlA2, Rfc2822(2, "+0100")),
      Entry(<<"B">>, UrlA1, Rfc2822(2, "GMT")),
      Entry(<<"C">>, UrlA3, Iso8601(1, "-01:00")),
      Entry(<<" ">>, UrlA2, Rfc2822(1, "GMT")),
      Entry(<<"C">>, NoUrl, Rfc2822(1, "GMT")) }

FetchOutcomes ==
    {FetchOutcome(k, <<>>) : k \in {"timeout", "http_error", "error", "unparseable"}}
    \cup {FetchOutcome("ok", es) : es \in BSeq(LambdaEntries, MaxEntries)}

\* articles handed to merge_articles in MergeSpec
ArticlePool ==
    { Article(<<"K">>, UrlA1Query, <<"N">>, Stamp(2, "+00:00")),
      Article(<<"B">>, UrlA1, GoogleNews, Stamp(1, "-01:00")),
      Article(<<"k">>, UrlA2, <<"N">>, Stamp(2, "+01:00")),
      Article(<<"C">>, UrlA3, <<"N">>, Stamp(1, "+00:00")),
      Article(<<"b">>, UrlA1Fragment, <<"N">>, Stamp(0, "")) }

(***************************************************************************)
(* Feed pipeline (app/fetcher.py): one feed entry to one Article.          *)
(* Article.fetched_at is written and never read; it is not modelled.       *)
(***************************************************************************)
\* a date field of a feedparser entry: missing (or falsy), convertible to
\* the given datetime, or making the conversion raise
Absent == [kind |-> "absent", value |-> Stamp(0, "")]
Converts(stamp) == [kind |-> "ok", value |-> stamp]
RaisesValueError == [kind |-> "value_error", value |-> Stamp(0, "")]
RaisesOverflowError == [kind |-> "overflow", value |-> Stamp(0, "")]

\* outcome of one of the two date loops of _parse_entry
Found(stamp) == [state |-> "found", value |-> stamp]
NotFound == [state |-> "none", value |-> Stamp(0, "")]
Raised == [state |-> "raised", value |-> Stamp(0, "")]

\* fetcher._parse_entry, lines 99-105: datetime(*tuple[:6], tzinfo=utc); a
\* TypeError or ValueError passes to the next field, any other exception
\* leaves the loop
RECURSIVE StructuredDate(_)
StructuredDate(fields) ==
    IF fields = <<>> THEN NotFound
    ELSE LET f == Head(fields)
         IN CASE f.kind = "absent" -> StructuredDate(Tail(fields))
              [] f.kind = "ok" -> Found(Stamp(f.value.local, "+00:00"))
              [] f.kind = "value_error" -> StructuredDate(Tail(fields))
              [] OTHER -> Raised

\* fetcher._parse_entry, lines 109-117: dateutil's parse(); a naive result is
\* given tzinfo=utc
RECURSIVE StringDate(_)
StringDate(fields) ==
    IF fields = <<>> THEN NotFound
    ELSE LET f == Head(fields)
         IN CASE f.kind = "absent" -> StringDate(Tail(fields))
              [] f.kind = "ok" ->
                    Found(IF f.value.off = "" THEN Stamp(f.value.local, "+00:00")
                          ELSE f.value)
              [] f.kind = "value_error" -> StringDate(Tail(fields))
              [] OTHER -> Raised

\* fetcher._parse_entry, lines 97-121: the date block at clock tick t
EntryDate(entry, t) ==
    LET structured == StructuredDate(<<entry.published_parsed,
                                       entry.updated_parsed,
                                       entry.created_parsed>>)
        strings == StringDate(<<entry.published, entry.updated, entry.created>>)
    IN IF structured.state # "none" THEN structured
       ELSE IF strings.state # "none" THEN strings
       ELSE Found(UtcNow(t))

\* pydantic's HttpUrl: http(s) with a host, an empty path becomes "/"
HttpUrlValid(link) == link.scheme \in {"http", "https"} /\ link.netloc # ""

HttpUrl(link) == [link EXCEPT !.path = IF link.path = "" THEN "/" ELSE link.path]

FeedArticle(title, url, source, published_at) ==
    [title |-> title, url |-> url, source |-> source, published_at |-> published_at]

NoArticle == [some |-> FALSE,
              article |-> FeedArticle(<<>>, NoUrl, "", Stamp(0, ""))]

Some(article) == [some |-> TRUE, article |-> article]

\* _parse_entry with an Article whose url takes any non-empty string
parse_entry_any_link(entry, source, t) ==
    LET title == Strip(entry.title)
        link == entry.link
        published == EntryDate(entry, t)
    IN IF title = <<>> \/ link = NoUrl THEN NoArticle
       ELSE IF published.state = "raised" THEN NoArticle
       ELSE Some(FeedArticle(title, HttpUrl(link), source, published.value))

\* fetcher.RSSFetcher._parse_entry
parse_entry(entry, source, t) ==
    LET title == Strip(entry.title)
        link == entry.link
        published == EntryDate(entry, t)
    IN IF title = <<>> \/ link = NoUrl THEN NoArticle
       ELSE IF published.state = "raised" THEN NoArticle
       ELSE IF ~HttpUrlValid(link) THEN NoArticle
       ELSE Some(FeedArticle(title, HttpUrl(link), source, published.value))

\* fetcher.fetch_feed, lines 51-55
RECURSIVE ParseFeedEntries(_, _, _)
ParseFeedEntries(entries, source, t) ==
    IF entries = <<>> THEN <<>>
    ELSE LET article == parse_entry(Head(entries), source, t)
             rest == ParseFeedEntries(Tail(entries), source, t)
         IN IF article.some THEN <<article.article>> \o rest ELSE rest

(***************************************************************************)
(* Feed pipeline: one GET of one feed.                                     *)
(***************************************************************************)
\* settings.max_articles_per_source, scaled down from 50
max_articles_per_source == 1
\* settings.max_total_articles, scaled down from 500
max_total_articles == 2
\* most entries one feed document holds
MaxFeedEntries == 2
\* longest list handed to filter_articles, sort_articles and get_articles
MaxList == 3
\* longest title handed to extract_source_from_title
MaxTitle == 7

\* FeedStatus.error: None, "Timeout", f"HTTP {code}", or str(e)
NoError == [tag |-> "none", code |-> 0, text |-> ""]
TimeoutError == [tag |-> "Timeout", code |-> 0, text |-> ""]
HttpError(code) == [tag |-> "HTTP", code |-> code, text |-> ""]
ExceptionText(text) == [tag |-> "text", code |-> 0, text |-> text]

FeedStatus(feed_config, success, article_count, error) ==
    [name |-> feed_config.name, url |-> feed_config.url, success |-> success,
     article_count |-> article_count, error |-> error]

\* what client.get and feedparser.parse come to: the exception client.get
\* raises ("none" when it returns), the status code, feed.bozo, feed.entries
Response(raised, text, status_code, bozo, entries) ==
    [raised |-> raised, text |-> text, status_code |-> status_code,
     bozo |-> bozo, entries |-> entries]

\* fetch_feed with the handlers of lines 67-77 tried in another order: the
\* catch-all first
fetch_feed_catch_all_first(feed_config, response, t) ==
    IF response.raised # "none"
    THEN [articles |-> <<>>,
          status |-> FeedStatus(feed_config, FALSE, 0, ExceptionText(response.text))]
    ELSE IF response.status_code < 200 \/ response.status_code > 299
    THEN [articles |-> <<>>,
          status |-> FeedStatus(feed_config, FALSE, 0,
                                ExceptionText("HTTPStatusError"))]
    ELSE IF response.bozo /\ response.entries = <<>>
    THEN [articles |-> <<>>,
          status |-> FeedStatus(feed_config, FALSE, 0,
                                ExceptionText("Failed to parse feed"))]
    ELSE LET articles == ParseFeedEntries(Take(response.entries,
                                               max_articles_per_source),
                                          feed_config.name, t)
         IN [articles |-> articles,
             status |-> FeedStatus(feed_config, TRUE, Len(articles), NoError)]

\* fetcher.RSSFetcher.fetch_feed
fetch_feed(feed_config, response, t) ==
    IF response.raised = "timeout"
    THEN [articles |-> <<>>,
          status |-> FeedStatus(feed_config, FALSE, 0, TimeoutError)]
    ELSE IF response.raised # "none"
    THEN [articles |-> <<>>,
          status |-> FeedStatus(feed_config, FALSE, 0, ExceptionText(response.text))]
    ELSE IF response.status_code < 200 \/ response.status_code > 299
    THEN [articles |-> <<>>,
          status |-> FeedStatus(feed_config, FALSE, 0,
                                HttpError(response.status_code))]
    ELSE IF response.bozo /\ response.entries = <<>>
    THEN [articles |-> <<>>,
          status |-> FeedStatus(feed_config, FALSE, 0,
                                ExceptionText("Failed to parse feed"))]
    ELSE LET articles == ParseFeedEntries(Take(response.entries,
                                               max_articles_per_source),
                                          feed_config.name, t)
         IN [articles |-> articles,
             status |-> FeedStatus(feed_config, TRUE, Len(articles), NoError)]

(***************************************************************************)
(* Feed pipeline: filter, deduplicate, sort, cap.                          *)
(***************************************************************************)
\* settings.filter_keywords (the program lists ten)
filter_keywords == {<<"K">>, <<"N", "T">>}

\* RSSFetcher.__init__: self.keywords
keywords == {Lower(kw) : kw \in filter_keywords}

\* keyword in title_lower
Contains(text, part) ==
    \E i \in 1..(Len(text) - Len(part) + 1) :
        SubSeq(text, i, i + Len(part) - 1) = part

\* filter_articles comparing the keywords with the title as it is written
filter_articles_case_sensitive(articles) ==
    SelectSeq(articles, LAMBDA a : \E kw \in keywords : Contains(a.title, kw))

\* fetcher.RSSFetcher.filter_articles
filter_articles(articles) ==
    SelectSeq(articles, LAMBDA a : \E kw \in keywords : Contains(Lower(a.title), kw))

\* deduplicate_articles that keeps every article
deduplicate_articles_keep_all(articles) == articles

\* fetcher.RSSFetcher.deduplicate_articles: keyed by str(article.url)
RECURSIVE DedupFrom(_, _)
DedupFrom(articles, seen_urls) ==
    IF articles = <<>> THEN <<>>
    ELSE IF Head(articles).url \in seen_urls
    THEN DedupFrom(Tail(articles), seen_urls)
    ELSE <<Head(articles)>>
         \o DedupFrom(Tail(articles), seen_urls \cup {Head(articles).url})

deduplicate_articles(articles) == DedupFrom(articles, {})

\* key of sort_articles: a.published_at, an aware datetime
PublishedInstant(a) == Instant(a.published_at)

ByPublishedInstant(s) ==
    [i \in DOMAIN s |-> [k |-> PublishedInstant(s[i]), v |-> s[i]]]

\* elements of a list in reverse order
Reverse(s) == [i \in DOMAIN s |-> s[Len(s) + 1 - i]]

\* sort_articles as sorted(...)[::-1] in descending mode: ties come out in
\* reverse input order
sort_articles_reversed(articles, descending) ==
    IF descending THEN Reverse(SortAsc(ByPublishedInstant(articles)))
    ELSE SortAsc(ByPublishedInstant(articles))

\* sort_articles that sorts newest first whatever the mode
sort_articles_always_descending(articles, descending) ==
    SortDesc(ByPublishedInstant(articles))

\* fetcher.RSSFetcher.sort_articles
sort_articles(articles, descending) ==
    IF descending THEN SortDesc(ByPublishedInstant(articles))
    ELSE SortAsc(ByPublishedInstant(articles))

\* service.refresh_articles lines 139-144, fetch_news.main lines 54-66,
\* fetcher.fetch_all lines 212-222
FilterDedupeSort(articles) ==
    sort_articles(deduplicate_articles(filter_articles(articles)), TRUE)

FeedPipeline(articles) ==
    LET filtered == FilterDedupeSort(articles)
    IN IF Len(filtered) > max_total_articles
       THEN Take(filtered, max_total_articles)
       ELSE filtered

\* service.get_articles over _articles = articles; None and "" are both
\* falsy and modelled as ""; a title or query is a sequence of characters
get_articles(articles, source, sort_order, search_query) ==
    LET by_source == IF source # "" THEN SelectSeq(articles, LAMBDA a : a.source = source)
                     ELSE articles
        by_query == IF search_query # <<>>
                    THEN SelectSeq(by_source,
                                   LAMBDA a : Contains(Lower(a.title), Lower(search_query)))
                    ELSE by_source
    IN sort_articles(by_query, sort_order = "desc")

\* the configured feeds (the program lists six)
RSS_FEEDS == << [name |-> "NHK", url |-> "https://www.nhk.or.jp/rss/news/cat6.xml"],
                [name |-> "Asahi", url |-> "https://www.asahi.com/rss/asahi/newsheadlines.rdf"] >>

FeedIds == DOMAIN RSS_FEEDS

FeedEntry(title, link, published_parsed, published) ==
    [title |-> title, link |-> link,
     published_parsed |-> published_parsed, updated_parsed |-> Absent,
     created_parsed |-> Absent,
     published |-> published, updated |-> Absent, created |-> Absent]

\* entries a feed document may hold
FeedEntries ==
    { FeedEntry(<<"K">>, UrlA1Query, Converts(Stamp(1, "")), Absent),
      FeedEntry(<<"k">>, UrlA1, Absent, Converts(Stamp(2, "+01:00"))),
      FeedEntry(<<"C">>, UrlA2, Converts(Stamp(2, "")), Absent) }

\* a sequence holds no element twice
Injective(s) == \A i, j \in 1..Len(s) : s[i] = s[j] => i = j

\* responses a GET may come to in FeedSpec: a timeout, an HTTP error, and
\* documents of at most max_articles_per_source different entries (an empty
\* one being malformed or not)
Responses ==
    { Response("timeout", "ReadTimeout", 0, FALSE, <<>>),
      Response("none", "", 404, FALSE, <<>>) }
    \cup {Response("none", "", 200, es = <<>>, es) :
              es \in {d \in BSeq(FeedEntries, max_articles_per_source) :
                          Injective(d)}}
    \cup {Response("none", "", 200, FALSE, <<>>)}

(***************************************************************************)
(* scripts/scrape_google_news.py: parse_relative_date.                     *)
(***************************************************************************)
\* the text handed to parse_relative_date, by the first pattern that matches
\* it: YYYY/MM/DD, MM/DD, "<n> <unit>前", or none
YearMonthDay(y, m, d) ==
    [form |-> "ymd", year |-> y, month |-> m, day |-> d, n |-> 0, unit |-> ""]
MonthDay(m, d) ==
    [form |-> "md", year |-> 0, month |-> m, day |-> d, n |-> 0, unit |-> ""]
Ago(n, unit) ==
    [form |-> "ago", year |-> 0, month |-> 0, day |-> 0, n |-> n, unit |-> unit]
Unrecognized ==
    [form |-> "none", year |-> 0, month |-> 0, day |-> 0, n |-> 0, unit |-> ""]

IsLeap(y) == (y % 4 = 0 /\ y % 100 # 0) \/ y % 400 = 0

DaysInMonth(y, m) ==
    CASE m \in {4, 6, 9, 11} -> 30
      [] m = 2 -> IF IsLeap(y) THEN 29 ELSE 28
      [] OTHER -> 31

\* datetime(y, m, d) returns; otherwise it raises ValueError
ValidDate(y, m, d) ==
    /\ y \in 1..9999
    /\ m \in 1..12
    /\ d \in 1..DaysInMonth(y, m)

\* datetime.now(timezone.utc).year at clock tick t: the clock starts at
\* 2024-01-01T00:00 UTC and no run lasts a year
YearNow(t) == 2024

\* timedelta(...) of the relative patterns, in whole days and seconds
TimeDelta(n, unit) ==
    LET seconds == CASE unit = "seconds" -> n
                     [] unit = "minutes" -> n * 60
                     [] unit = "hours" -> n * 3600
                     [] OTHER -> 0
        days == CASE unit = "days" -> n
                  [] unit = "weeks" -> n * 7
                  [] unit = "months" -> n * 30
                  [] unit = "years" -> n * 365
                  [] OTHER -> 0
    IN [days |-> days + seconds \div 86400, seconds |-> seconds % 86400]

\* what a call comes to: a value, or an exception
Returns(value) == [done |-> TRUE, raised |-> "", value |-> value]
Raises(exception) == [done |-> TRUE, raised |-> exception, value |-> <<>>]

\* a datetime parse_relative_date returns: a calendar date at midnight UTC, or
\* the clock reading less a timedelta
DateOf(y, m, d) ==
    [year |-> y, month |-> m, day |-> d, clock |-> 0, days |-> 0, seconds |-> 0]
ClockLess(t, delta) ==
    [year |-> 0, month |-> 0, day |-> 0, clock |-> t,
     days |-> delta.days, seconds |-> delta.seconds]

\* scrape_google_news.parse_relative_date at clock tick t; now - delta raises
\* OverflowError when it falls before datetime.min, 738885 days before the
\* day the clock starts (a tick is taken as one second)
parse_relative_date(date_str, t) ==
    CASE date_str.form = "ymd" ->
            IF ValidDate(date_str.year, date_str.month, date_str.day)
            THEN Returns(DateOf(date_str.year, date_str.month, date_str.day))
            ELSE Raises("ValueError")
      [] date_str.form = "md" ->
            IF ValidDate(YearNow(t), date_str.month, date_str.day)
            THEN Returns(DateOf(YearNow(t), date_str.month, date_str.day))
            ELSE Raises("ValueError")
      [] date_str.form = "ago" ->
            LET delta == TimeDelta(date_str.n, date_str.unit)
            IN IF \/ delta.days > 738885
                  \/ delta.days = 738885 /\ delta.seconds > t
               THEN Raises("OverflowError")
               ELSE Returns(ClockLess(t, delta))
      [] OTHER -> Returns(ClockLess(t, TimeDelta(0, "")))

(***************************************************************************)
(* Inputs of the single calls (UnitSpec).                                  *)
(***************************************************************************)
\* a link pydantic's HttpUrl rejects
UrlNoScheme == Url("", "", "a/1", "", "", "")

\* what a structured date field may be
ParsedFields ==
    {Absent, Converts(Stamp(1, "")), RaisesValueError, RaisesOverflowError}

\* what a date string field may be
StringFields ==
    {Absent, Converts(Stamp(2, "+01:00")), RaisesValueError, RaisesOverflowError}

\* entries handed to _parse_entry
UnitFeedEntries ==
    { [title |-> title, link |-> link,
       published_parsed |-> pp, updated_parsed |-> up, created_parsed |-> Absent,
       published |-> ps, updated |-> us, created |-> Absent] :
         title \in {<<"K">>, <<" ">>}, link \in {UrlA1, NoUrl, UrlNoScheme},
         pp \in ParsedFields, up \in ParsedFields,
         ps \in StringFields, us \in StringFields }

\* <pubDate> texts handed to parse_pub_date
PubDates ==
    { Rfc2822(1, "GMT"), Rfc2822(1, "-0000"), Rfc2822(2, "+0100"),
      Iso8601(1, "Z"), Iso8601(1, "-01:00"), Iso8601(2, ""), NotADate }

\* entries of a keyword feed
UnitKeywordEntries ==
    { Entry(title, link, published) :
         title \in {<<"K", " ", "-", " ", "N">>, <<"C">>, <<" ">>},
         link \in {UrlA1Query, NoUrl}, published \in PubDates }

\* titles handed to extract_source_from_title: every text of up to MaxTitle
\* characters, and "K - B - N"
UnitTitles ==
    BSeq({"K", " ", "-"}, MaxTitle)
    \cup {<<"K", " ", "-", " ", "B", " ", "-", " ", "N">>}

\* texts handed to parse_relative_date
RelativeDates ==
    {YearMonthDay(y, m, d) : y \in {0, 2024}, m \in {2, 12, 13}, d \in {15, 30, 45}}
    \cup {MonthDay(m, d) : m \in {2, 12, 13}, d \in {15, 30, 45}}
    \cup {Ago(n, unit) : n \in {0, 3, 3000},
                         unit \in {"seconds", "minutes", "hours", "days",
                                   "weeks", "months", "years"}}
    \cup {Unrecognized}

\* entries of a feed document: those of FeedEntries, one without a title, one
\* whose link is no URL
UnitDocEntries ==
    FeedEntries
    \cup { FeedEntry(<<" ">>, UrlA2, Absent, Absent),
           FeedEntry(<<"C">>, UrlNoScheme, Absent, Absent) }

\* what one GET of a keyword feed may come to: a failure, or a document of up
\* to MaxFeedEntries entries
UnitOutcomes ==
    {FetchOutcome(k, <<>>) : k \in {"timeout", "unparseable"}}
    \cup {FetchOutcome("ok", es) : es \in BSeq(LambdaEntries, MaxFeedEntries)}

\* what one GET may come to: any exception, any status code, documents
\* longer than max_articles_per_source
UnitResponses ==
    { Response("timeout", "ReadTimeout", 0, FALSE, <<>>),
      Response("error", "ConnectError", 0, FALSE, <<>>) }
    \cup {Response("none", "", code, bozo, es) :
              code \in {200, 204, 301, 404, 500}, bozo \in BOOLEAN,
              es \in BSeq(UnitDocEntries, MaxFeedEntries)}

\* articles handed to the list operations; some share a URL, some a publish
\* instant (02:00+01:00 and 01:00+00:00 are one instant)
UnitArticles ==
    { FeedArticle(<<"K">>, UrlA1, "NHK", Stamp(1, "+00:00")),
      FeedArticle(<<"a", "k", "b">>, UrlA1Query, "Asahi", Stamp(2, "+01:00")),
      FeedArticle(<<"n", "T">>, UrlA1, "NHK", Stamp(2, "+00:00")),
      FeedArticle(<<"C">>, UrlA2, "Asahi", Stamp(1, "+00:00")),
      FeedArticle(<<"N", "x", "T">>, UrlA2, "NHK", Stamp(0, "+00:00")),
      FeedArticle(<<"K", "k">>, UrlA3, "NHK", Stamp(1, "+00:00")) }

UnitLists == BSeq(UnitArticles, MaxList)

Call(fn, arg) == [fn |-> fn, arg |-> arg]

UnitCalls ==
    {Call("_parse_entry", e) : e \in UnitFeedEntries}
    \cup {Call("_parse_entry.date", e) :
              e \in {u \in UnitFeedEntries : u.title = <<"K">> /\ u.link = UrlA1}}
    \cup {Call("fetch_google_news_rss.entry", e) : e \in UnitKeywordEntries}
    \cup {Call("extract_source_from_title", title) : title \in UnitTitles}
    \cup {Call("parse_pub_date", d) : d \in PubDates}
    \cup {Call("parse_relative_date", d) : d \in RelativeDates}
    \cup {Call("fetch_feed", r) : r \in UnitResponses}
    \cup {Call("fetch_google_news_rss", o) : o \in UnitOutcomes}
    \cup {Call("filter_articles", l) : l \in UnitLists}
    \cup {Call("filter_dedupe_sort", l) : l \in UnitLists}
    \cup {Call("sort_articles", [articles |-> l, descending |-> d]) :
              l \in UnitLists, d \in BOOLEAN}
    \cup {Call("get_articles", [articles |-> l, source |-> src, sort_order |-> o,
                                search_query |-> q]) :
              l \in UnitLists, src \in {"", "NHK"},
              o \in {"desc", "asc"}, q \in {<<>>, <<"K">>}}

(***************************************************************************)
(* State.                                                                  *)
(***************************************************************************)
VARIABLES
    now,                \* the wall clock, in ticks
    s3_client,          \* lambda_handler.s3_client is set (running in Lambda)
    s3,                 \* the object at S3_BUCKET/S3_KEY
    pc,                 \* where the handler run is
    existing_articles,  \* handler: existing_articles
    results,            \* fetch_all_keywords: results, per keyword
    all_articles,       \* fetch_all_keywords: all_articles (result["articles"])
    stats,              \* fetch_all_keywords: stats
    merged_articles,    \* handler: merged_articles
    response,           \* the handler's last response
    feed_pc,            \* where the feed pipeline run is
    feed_statuses,      \* fetch_all: feed_statuses, per feed
    feed_results,       \* refresh_articles / main: the articles fetched, per feed
    service_articles,   \* service._articles
    service_last_updated, \* service._last_updated
    data_file,          \* backend data/articles.json
    frontend_file,      \* frontend/data/articles.json
    fetch_result,       \* what the last refresh_articles returned
    call,               \* a function applied to a drawn argument: the call
    ret,                \* ... and what it returned
    frames              \* the locals of each of several overlapping runs

lambdaVars == <<s3_client, s3, pc, existing_articles, results, all_articles,
                stats, merged_articles, response>>

feedVars == <<feed_pc, feed_statuses, feed_results, service_articles,
              service_last_updated, data_file, frontend_file, fetch_result>>

unitVars == <<call, ret>>

vars == <<now, lambdaVars, feedVars, unitVars, frames>>

\* most runs (handler invocations, refresh_articles calls) under way at once
MaxRuns == 2

RunIds == 1..MaxRuns

\* the locals of one run: where it is, the collection it loaded
\* (existing_articles), its batch (all_articles / result["articles"]), and,
\* once it has ended, the collection it wrote and the _last_updated it set
NoFrame == [pc |-> "idle", existing_articles |-> <<>>, all_articles |-> <<>>,
            written |-> <<>>, written_at |-> UtcNow(0)]

NoObject == [present |-> FALSE, lastUpdated |-> UtcNow(0), articles |-> <<>>]

S3Object(lastUpdated, articles) ==
    [present |-> TRUE, lastUpdated |-> lastUpdated, articles |-> articles]

\* an item of a persisted "articles" list that is not a JSON object (a string,
\* a number): the content is valid JSON of the wrong shape
NotADict == [not_a_dict |-> TRUE]

\* merge_articles line 272 and load_articles_from_file line 38: reading a
\* field of such an item raises (AttributeError, TypeError)
Malformed(articles) ==
    \E i \in DOMAIN articles : "not_a_dict" \in DOMAIN articles[i]

Pending == [done |-> FALSE, articles |-> <<>>]

\* a task of the gather of fetch_all_keywords: not finished, or finished with
\* the list it returned; failed tells that the fetch inside it failed (the
\* task returns [] then: fetch_google_news_rss raises nothing)
NoResult == [done |-> FALSE, failed |-> FALSE, articles |-> <<>>]

TaskResult(outcome, t) ==
    [done |-> TRUE, failed |-> outcome.kind # "ok",
     articles |-> fetch_google_news_rss(outcome, t)]

NoStats == [keywords_searched |-> 0, successful_fetches |-> 0,
            failed_fetches |-> 0, total_fetched |-> 0]

NoResponse == [statusCode |-> 0, stats |-> NoStats, existing_articles |-> 0,
               merged_total |-> 0, uploaded |-> FALSE]

KeywordIds == DOMAIN SEARCH_KEYWORDS

(***************************************************************************)
(* The Lambda handler, step by step.                                       *)
(***************************************************************************)
\* lambda_handler.load_existing_articles
load_existing_articles(client, object, failure) ==
    IF ~client THEN <<>>
    ELSE IF failure THEN <<>>
    ELSE IF ~object.present THEN <<>>
    ELSE object.articles

\* handler line 353; failure: get_object or the decoding raises
Load(failure) ==
    /\ pc = "idle"
    /\ existing_articles' = load_existing_articles(s3_client, s3, failure)
    /\ results' = [k \in KeywordIds |-> NoResult]
    /\ response' = NoResponse
    /\ pc' = "fetch"
    /\ UNCHANGED <<now, s3_client, s3, all_articles, stats, merged_articles,
                   feedVars, unitVars, frames>>

\* one task of the gather (line 211-212) completes
FetchKeyword(k, outcome) ==
    /\ pc = "fetch"
    /\ ~results[k].done
    /\ results' = [results EXCEPT ![k] = TaskResult(outcome, now)]
    /\ UNCHANGED <<now, s3_client, s3, pc, existing_articles, all_articles,
                   stats, merged_articles, response, feedVars, unitVars, frames>>

\* fetch_all_keywords going on to its results as soon as one task is done
CollectFirstCompleted ==
    /\ pc = "fetch"
    /\ \E k \in KeywordIds : results[k].done
    /\ all_articles' = Flatten([k \in KeywordIds |-> results[k].articles])
    /\ stats' = [keywords_searched |-> Len(SEARCH_KEYWORDS),
                 successful_fetches |-> Len(SEARCH_KEYWORDS),
                 failed_fetches |-> 0,
                 total_fetched |-> Len(all_articles')]
    /\ pc' = "merge"
    /\ UNCHANGED <<now, s3_client, s3, existing_articles, results,
                   merged_articles, response, feedVars, unitVars, frames>>

\* fetch_all_keywords, lines 214-227: no task result is an exception, since
\* fetch_google_news_rss catches every Exception
Collect ==
    /\ pc = "fetch"
    /\ \A k \in KeywordIds : results[k].done
    /\ all_articles' = Flatten([k \in KeywordIds |-> results[k].articles])
    /\ stats' = [keywords_searched |-> Len(SEARCH_KEYWORDS),
                 successful_fetches |-> Len(SEARCH_KEYWORDS),
                 failed_fetches |-> 0,
                 total_fetched |-> Len(all_articles')]
    /\ pc' = "merge"
    /\ UNCHANGED <<now, s3_client, s3, existing_articles, results,
                   merged_articles, response, feedVars, unitVars, frames>>

\* handler line 359; when merge_articles raises, the handler's except (lines
\* 387-395) answers 500 and nothing is uploaded
Merge ==
    /\ pc = "merge"
    /\ IF Malformed(existing_articles)
         THEN /\ response' = [NoResponse EXCEPT !.statusCode = 500]
              /\ pc' = "idle"
              /\ existing_articles' = <<>>
              /\ all_articles' = <<>>
              /\ stats' = NoStats
              /\ merged_articles' = <<>>
         ELSE /\ merged_articles' = merge_articles(existing_articles, all_articles)
              /\ pc' = "upload"
              /\ UNCHANGED <<existing_articles, all_articles, stats, response>>
    /\ results' = [k \in KeywordIds |-> NoResult]
    /\ UNCHANGED <<now, s3_client, s3, feedVars, unitVars, frames>>

\* lambda_handler.upload_to_s3 and handler lines 362-385; failure: put_object
\* raises
Upload(failure) ==
    /\ pc = "upload"
    /\ LET uploaded == s3_client /\ ~failure
       IN /\ s3' = IF uploaded THEN S3Object(UtcNow(now), merged_articles) ELSE s3
          /\ response' = [statusCode |-> 200, stats |-> stats,
                          existing_articles |-> Len(existing_articles),
                          merged_total |-> Len(merged_articles),
                          uploaded |-> uploaded]
    /\ pc' = "idle"
    /\ existing_articles' = <<>>
    /\ results' = [k \in KeywordIds |-> NoResult]
    /\ all_articles' = <<>>
    /\ stats' = NoStats
    /\ merged_articles' = <<>>
    /\ UNCHANGED <<now, s3_client, feedVars, unitVars, frames>>

\* time passes
Tick ==
    /\ now < MaxNow
    /\ now' = now + 1
    /\ UNCHANGED <<lambdaVars, feedVars, unitVars, frames>>

(***************************************************************************)
(* The feed pipeline, step by step: service.refresh_articles and           *)
(* scripts/fetch_news.main.                                                *)
(***************************************************************************)
NoStatus == [done |-> FALSE,
             status |-> FeedStatus([name |-> "", url |-> ""], FALSE, 0, NoError)]

Done(status) == [done |-> TRUE, status |-> status]

NoFetchResult == [returned |-> FALSE, raised |-> FALSE, total_articles |-> 0,
                  filtered_articles |-> 0, feed_statuses |-> <<>>]

\* a JSON file: missing, or holding lastUpdated and articles
NoFile == [exists |-> FALSE, lastUpdated |-> UtcNow(0), articles |-> <<>>]

File(lastUpdated, articles) ==
    [exists |-> TRUE, lastUpdated |-> lastUpdated, articles |-> articles]

\* no feed run is under way
FeedAtRest ==
    /\ feed_statuses = [f \in FeedIds |-> NoStatus]
    /\ feed_results = [f \in FeedIds |-> Pending]

\* the service as imported with no data file: load_articles_from_file leaves
\* _articles empty
FeedIdle ==
    /\ feed_pc = "idle"
    /\ FeedAtRest
    /\ service_articles = <<>>
    /\ service_last_updated = UtcNow(0)
    /\ data_file = NoFile
    /\ frontend_file = NoFile
    /\ fetch_result = NoFetchResult

NoCall == [fn |-> "none", arg |-> <<>>]
NoReturn == [done |-> FALSE, raised |-> "", value |-> <<>>]

UnitIdle ==
    /\ call = NoCall
    /\ ret = NoReturn

\* service.load_articles_from_file; failure: open or json.load raises. With no
\* file, _articles and _last_updated keep their values of lines 17-18.
load_articles_from_file(file, failure, t) ==
    IF ~file.exists \/ failure \/ Malformed(file.articles)
    THEN [articles |-> <<>>, last_updated |-> UtcNow(t)]
    ELSE [articles |->
             [i \in DOMAIN file.articles |->
                 LET a == file.articles[i]
                 IN FeedArticle(a.title, HttpUrl(a.url), a.source,
                                fromisoformat_z(Iso8601(a.published_at.local,
                                                        a.published_at.off)).value)],
          last_updated |-> file.lastUpdated]

\* the service module is imported (line 209)
ServiceStart(failure) ==
    /\ feed_pc = "import"
    /\ LET loaded == load_articles_from_file(data_file, failure, now)
       IN /\ service_articles' = loaded.articles
          /\ service_last_updated' = loaded.last_updated
    /\ feed_pc' = "idle"
    /\ UNCHANGED <<now, feed_statuses, feed_results, data_file, frontend_file,
                   fetch_result, lambdaVars, unitVars, frames>>

\* refresh_articles is called (line 112)
StartRefresh ==
    /\ feed_pc = "idle"
    /\ feed_pc' = "fetch_all"
    /\ fetch_result' = NoFetchResult
    /\ UNCHANGED <<now, feed_statuses, feed_results, service_articles,
                   service_last_updated, data_file, frontend_file,
                   lambdaVars, unitVars, frames>>

\* fetcher.fetch_all, lines 202-207 and 230: the gather over all feeds; resps
\* gives what each GET comes to
FetchAll(resps) ==
    /\ feed_pc = "fetch_all"
    /\ feed_statuses' = [f \in FeedIds |->
                            Done(fetch_feed(RSS_FEEDS[f], resps[f], now).status)]
    /\ feed_pc' = "refetch"
    /\ UNCHANGED <<now, feed_results, service_articles,
                   service_last_updated, data_file, frontend_file, fetch_result,
                   lambdaVars, unitVars, frames>>

\* refresh_articles, lines 126-158: the second gather over all feeds and,
\* with no await after it, the rest of the function; save_fails,
\* export_fails: the write raises and the exception leaves refresh_articles
Publish(resps, save_fails, export_fails) ==
    /\ feed_pc = "refetch"
    /\ LET all == Flatten([f \in FeedIds |->
                              fetch_feed(RSS_FEEDS[f], resps[f], now).articles])
           filtered == FeedPipeline(all)
       IN /\ service_articles' = filtered
          /\ service_last_updated' = UtcNow(now)
          /\ data_file' = IF save_fails THEN data_file
                          ELSE File(UtcNow(now), filtered)
          /\ frontend_file' = IF save_fails \/ export_fails THEN frontend_file
                              ELSE File(UtcNow(now), filtered)
          /\ fetch_result' =
                IF save_fails \/ export_fails
                THEN [NoFetchResult EXCEPT !.raised = TRUE]
                ELSE [returned |-> TRUE, raised |-> FALSE,
                      total_articles |-> Len(all),
                      filtered_articles |-> Len(filtered),
                      feed_statuses |-> [f \in FeedIds |-> feed_statuses[f].status]]
    /\ feed_pc' = "idle"
    /\ feed_statuses' = [f \in FeedIds |-> NoStatus]
    /\ UNCHANGED <<now, feed_results, lambdaVars, unitVars, frames>>

\* fetch_news.main, lines 39-43: the feeds are fetched one after the other
ScriptFetchAll(resps) ==
    /\ feed_pc = "script"
    /\ feed_results' = [f \in FeedIds |->
                           [done |-> TRUE,
                            articles |-> fetch_feed(RSS_FEEDS[f], resps[f], now).articles]]
    /\ feed_statuses' = [f \in FeedIds |->
                            Done(fetch_feed(RSS_FEEDS[f], resps[f], now).status)]
    /\ feed_pc' = "script_write"
    /\ UNCHANGED <<now, service_articles, service_last_updated,
                   data_file, frontend_file, fetch_result, lambdaVars, unitVars,
                   frames>>

\* fetch_news.main, lines 54-101: the frontend file is written first, then
\* the backend file; a failing write ends the script
ScriptWrite(frontend_fails, backend_fails) ==
    /\ feed_pc = "script_write"
    /\ LET fetched == Flatten([f \in FeedIds |-> feed_results[f].articles])
           filtered == FeedPipeline(fetched)
       IN /\ frontend_file' = IF frontend_fails THEN frontend_file
                              ELSE File(UtcNow(now), filtered)
          /\ data_file' = IF frontend_fails \/ backend_fails THEN data_file
                          ELSE File(UtcNow(now), filtered)
    /\ feed_pc' = "exit"
    /\ UNCHANGED <<now, feed_statuses, feed_results, service_articles,
                   service_last_updated, fetch_result, lambdaVars, unitVars, frames>>

(***************************************************************************)
(* fetcher.fetch_all, task by task.                                        *)
(***************************************************************************)
\* fetch_all is called: line 203 makes one fetch_feed coroutine per feed and
\* line 204 hands them all to gather
StartFetchAll ==
    /\ feed_pc = "idle"
    /\ feed_pc' = "gather"
    /\ feed_statuses' = [f \in FeedIds |-> NoStatus]
    /\ feed_results' = [f \in FeedIds |-> Pending]
    /\ fetch_result' = NoFetchResult
    /\ UNCHANGED <<now, service_articles, service_last_updated, data_file,
                   frontend_file, lambdaVars, unitVars, frames>>

\* one fetch_feed task of the gather completes: its GET came to response
FetchFeedTask(f, response_) ==
    /\ feed_pc = "gather"
    /\ ~feed_statuses[f].done
    /\ LET r == fetch_feed(RSS_FEEDS[f], response_, now)
       IN /\ feed_statuses' = [feed_statuses EXCEPT ![f] = Done(r.status)]
          /\ feed_results' = [feed_results EXCEPT
                                 ![f] = [done |-> TRUE, articles |-> r.articles]]
    /\ UNCHANGED <<now, feed_pc, service_articles, service_last_updated,
                   data_file, frontend_file, fetch_result, lambdaVars, unitVars,
                   frames>>

\* fetch_all, lines 204-235: gather returns once every task is done, then the
\* results are read in order, filtered, deduplicated, sorted and capped
FetchAllReturn ==
    /\ feed_pc = "gather"
    /\ \A f \in FeedIds : feed_statuses[f].done
    /\ LET all == Flatten([f \in FeedIds |-> feed_results[f].articles])
           filtered == FeedPipeline(all)
       IN fetch_result' = [returned |-> TRUE, raised |-> FALSE,
                           total_articles |-> Len(all),
                           filtered_articles |-> Len(filtered),
                           feed_statuses |->
                               [f \in FeedIds |-> feed_statuses[f].status]]
    /\ feed_pc' = "idle"
    /\ UNCHANGED <<now, feed_statuses, feed_results, service_articles,
                   service_last_updated, data_file, frontend_file,
                   lambdaVars, unitVars, frames>>

(***************************************************************************)
(* Overlapping runs: several invocations of the handler against one S3     *)
(* object, several refresh_articles calls in one event loop. Run r keeps   *)
(* its locals in frames[r].                                                *)
(***************************************************************************)
\* handler line 353 in invocation r: its own snapshot of the object
RunLoad(r, failure) ==
    /\ pc = "overlapping"
    /\ frames[r].pc = "idle"
    /\ frames' = [frames EXCEPT
                     ![r].pc = "fetch",
                     ![r].existing_articles =
                         load_existing_articles(s3_client, s3, failure)]
    /\ UNCHANGED <<now, lambdaVars, feedVars, unitVars>>

\* handler line 356 in invocation r: fetch_all_keywords returns its batch;
\* the first keyword's GET comes to outcome, the others time out
RunFetch(r, outcome) ==
    /\ pc = "overlapping"
    /\ frames[r].pc = "fetch"
    /\ frames' = [frames EXCEPT
                     ![r].pc = "upload",
                     ![r].all_articles =
                         Flatten([k \in KeywordIds |->
                                     fetch_google_news_rss(
                                         IF k = 1 THEN outcome
                                         ELSE FetchOutcome("timeout", <<>>),
                                         now)])]
    /\ UNCHANGED <<now, lambdaVars, feedVars, unitVars>>

\* RunUpload merging its batch into the object as it is now, not into the
\* snapshot the run loaded
RunUploadRebased(r, failure) ==
    /\ pc = "overlapping"
    /\ frames[r].pc = "upload"
    /\ LET merged == merge_articles(s3.articles, frames[r].all_articles)
           uploaded == s3_client /\ ~failure
       IN /\ s3' = IF uploaded THEN S3Object(UtcNow(now), merged) ELSE s3
          /\ frames' = [frames EXCEPT
                           ![r] = [NoFrame EXCEPT
                                      !.pc = IF uploaded THEN "done" ELSE "failed",
                                      !.written = IF uploaded THEN merged
                                                  ELSE <<>>]]
    /\ UNCHANGED <<now, s3_client, pc, existing_articles, results, all_articles,
                   stats, merged_articles, response, feedVars, unitVars>>

\* handler lines 359-369 in invocation r: merge_articles on its own snapshot
\* and batch, then put_object of the whole collection; failure: put_object
\* raises
RunUpload(r, failure) ==
    /\ pc = "overlapping"
    /\ frames[r].pc = "upload"
    /\ LET merged == merge_articles(frames[r].existing_articles,
                                    frames[r].all_articles)
           uploaded == s3_client /\ ~failure
       IN /\ s3' = IF uploaded THEN S3Object(UtcNow(now), merged) ELSE s3
          /\ frames' = [frames EXCEPT
                           ![r] = [NoFrame EXCEPT
                                      !.pc = IF uploaded THEN "done" ELSE "failed",
                                      !.written = IF uploaded THEN merged
                                                  ELSE <<>>]]
    /\ UNCHANGED <<now, s3_client, pc, existing_articles, results, all_articles,
                   stats, merged_articles, response, feedVars, unitVars>>

\* refresh_articles call r starts (line 112)
RefreshStart(r) ==
    /\ feed_pc = "overlapping"
    /\ frames[r].pc = "idle"
    /\ frames' = [frames EXCEPT ![r].pc = "fetch_all"]
    /\ UNCHANGED <<now, lambdaVars, feedVars, unitVars>>

\* refresh_articles call r, line 112: fetch_all has returned (its result
\* only goes into the FetchResult of line 153)
RefreshFetchAll(r) ==
    /\ feed_pc = "overlapping"
    /\ frames[r].pc = "fetch_all"
    /\ frames' = [frames EXCEPT ![r].pc = "refetch"]
    /\ UNCHANGED <<now, lambdaVars, feedVars, unitVars>>

\* RefreshPublish leaving _last_updated as it was
RefreshPublishKeepStamp(r, resps) ==
    /\ feed_pc = "overlapping"
    /\ frames[r].pc = "refetch"
    /\ LET all == Flatten([f \in FeedIds |->
                              fetch_feed(RSS_FEEDS[f], resps[f], now).articles])
           filtered == FeedPipeline(all)
       IN /\ service_articles' = filtered
          /\ service_last_updated' = service_last_updated
          /\ data_file' = File(UtcNow(now), filtered)
          /\ frontend_file' = File(UtcNow(now), filtered)
          /\ frames' = [frames EXCEPT
                           ![r] = [NoFrame EXCEPT
                                      !.pc = "done",
                                      !.written = filtered,
                                      !.written_at = UtcNow(now)]]
    /\ UNCHANGED <<now, feed_pc, feed_statuses, feed_results, fetch_result,
                   lambdaVars, unitVars>>

\* refresh_articles call r, lines 126-158: the second gather and, with no
\* await after it, the assignment of _articles and _last_updated and the two
\* writes
RefreshPublish(r, resps) ==
    /\ feed_pc = "overlapping"
    /\ frames[r].pc = "refetch"
    /\ LET all == Flatten([f \in FeedIds |->
                              fetch_feed(RSS_FEEDS[f], resps[f], now).articles])
           filtered == FeedPipeline(all)
       IN /\ service_articles' = filtered
          /\ service_last_updated' = UtcNow(now)
          /\ data_file' = File(UtcNow(now), filtered)
          /\ frontend_file' = File(UtcNow(now), filtered)
          /\ frames' = [frames EXCEPT
                           ![r] = [NoFrame EXCEPT
                                      !.pc = "done",
                                      !.written = filtered,
                                      !.written_at = UtcNow(now)]]
    /\ UNCHANGED <<now, feed_pc, feed_statuses, feed_results, fetch_result,
                   lambdaVars, unitVars>>

\* main.list_articles: get_articles() reads _articles and _last_updated in
\* one synchronous call
ListArticles(sort_order) ==
    /\ feed_pc = "overlapping"
    /\ call' = Call("list_articles", sort_order)
    /\ ret' = Returns([articles |-> get_articles(service_articles, "",
                                                 sort_order, <<>>),
                       last_updated |-> service_last_updated])
    /\ UNCHANGED <<now, lambdaVars, feedVars, frames>>

(***************************************************************************)
(* Single calls: call is the function and its argument, ret what the call  *)
(* comes to.                                                               *)
(***************************************************************************)
\* fetcher._parse_entry: it returns an Article or None
CallParseEntry ==
    /\ call.fn = "_parse_entry"
    /\ ~ret.done
    /\ ret' = Returns(parse_entry(call.arg, RSS_FEEDS[1].name, now))
    /\ UNCHANGED <<now, call, lambdaVars, feedVars, frames>>

\* fetcher._parse_entry, lines 97-121: the date block on its own
CallEntryDate ==
    /\ call.fn = "_parse_entry.date"
    /\ ~ret.done
    /\ ret' = LET published == EntryDate(call.arg, now)
              IN IF published.state = "raised" THEN Raises("OverflowError")
                 ELSE Returns(published.value)
    /\ UNCHANGED <<now, call, lambdaVars, feedVars, frames>>

\* lambda_handler.fetch_google_news_rss, lines 146-181, on one entry: the
\* articles it appends
CallParseKeywordEntry ==
    /\ call.fn = "fetch_google_news_rss.entry"
    /\ ~ret.done
    /\ ret' = Returns(ParseKeywordEntries(<<call.arg>>, now))
    /\ UNCHANGED <<now, call, lambdaVars, feedVars, frames>>

\* lambda_handler.extract_source_from_title
CallExtractSource ==
    /\ call.fn = "extract_source_from_title"
    /\ ~ret.done
    /\ ret' = Returns(extract_source_from_title(call.arg))
    /\ UNCHANGED <<now, call, lambdaVars, feedVars, frames>>

\* lambda_handler.parse_pub_date
CallParsePubDate ==
    /\ call.fn = "parse_pub_date"
    /\ ~ret.done
    /\ ret' = Returns(parse_pub_date(call.arg, now))
    /\ UNCHANGED <<now, call, lambdaVars, feedVars, frames>>

\* scrape_google_news.parse_relative_date
CallParseRelativeDate ==
    /\ call.fn = "parse_relative_date"
    /\ ~ret.done
    /\ ret' = parse_relative_date(call.arg, now)
    /\ UNCHANGED <<now, call, lambdaVars, feedVars, frames>>

\* fetcher.fetch_feed
CallFetchFeed ==
    /\ call.fn = "fetch_feed"
    /\ ~ret.done
    /\ ret' = Returns(fetch_feed(RSS_FEEDS[1], call.arg, now))
    /\ UNCHANGED <<now, call, lambdaVars, feedVars, frames>>

\* lambda_handler.fetch_google_news_rss on what its GET comes to
CallFetchGoogleNewsRss ==
    /\ call.fn = "fetch_google_news_rss"
    /\ ~ret.done
    /\ ret' = Returns(fetch_google_news_rss(call.arg, now))
    /\ UNCHANGED <<now, call, lambdaVars, feedVars, frames>>

\* fetcher.filter_articles
CallFilterArticles ==
    /\ call.fn = "filter_articles"
    /\ ~ret.done
    /\ ret' = Returns(filter_articles(call.arg))
    /\ UNCHANGED <<now, call, lambdaVars, feedVars, frames>>

\* the stage of refresh_articles lines 139-141 (fetch_all lines 212-218)
CallFilterDedupeSort ==
    /\ call.fn = "filter_dedupe_sort"
    /\ ~ret.done
    /\ ret' = Returns(FilterDedupeSort(call.arg))
    /\ UNCHANGED <<now, call, lambdaVars, feedVars, frames>>

\* fetcher.sort_articles
CallSortArticles ==
    /\ call.fn = "sort_articles"
    /\ ~ret.done
    /\ ret' = Returns(sort_articles(call.arg.articles, call.arg.descending))
    /\ UNCHANGED <<now, call, lambdaVars, feedVars, frames>>

\* service.get_articles: the articles of its response
CallGetArticles ==
    /\ call.fn = "get_articles"
    /\ ~ret.done
    /\ ret' = Returns(get_articles(call.arg.articles, call.arg.source,
                                   call.arg.sort_order, call.arg.search_query))
    /\ UNCHANGED <<now, call, lambdaVars, feedVars, frames>>

\* the Lambda has not run: nothing is persisted
LambdaIdle ==
    /\ s3 = NoObject
    /\ pc = "idle"
    /\ existing_articles = <<>>
    /\ results = [k \in KeywordIds |-> NoResult]
    /\ all_articles = <<>>
    /\ stats = NoStats
    /\ merged_articles = <<>>
    /\ response = NoResponse

Init ==
    /\ now = 0
    /\ s3_client \in BOOLEAN
    /\ frames = [r \in RunIds |-> NoFrame]
    /\ LambdaIdle
    /\ FeedIdle
    /\ UnitIdle

Next ==
    \/ \E failure \in BOOLEAN : Load(failure)
    \/ \E k \in KeywordIds, outcome \in FetchOutcomes : FetchKeyword(k, outcome)
    \/ Collect
    \/ Merge
    \/ \E failure \in BOOLEAN : Upload(failure)
    \/ Tick

\* runs of the Lambda handler against the persisted collection
Spec == Init /\ [][Next]_vars

(***************************************************************************)
(* merge_articles as a function of its two arguments.                      *)
(***************************************************************************)
MergeInit ==
    /\ now = 0
    /\ s3_client = FALSE
    /\ frames = [r \in RunIds |-> NoFrame]
    /\ s3 = NoObject
    /\ pc = "merge"
    /\ existing_articles \in BSeq(ArticlePool, MaxExisting)
    /\ results = [k \in KeywordIds |-> NoResult]
    /\ all_articles \in BSeq(ArticlePool, MaxNew)
    /\ stats = NoStats
    /\ merged_articles = <<>>
    /\ response = NoResponse
    /\ FeedIdle
    /\ UnitIdle

MergeNext == Merge

MergeSpec == MergeInit /\ [][MergeNext]_vars

(***************************************************************************)
(* Runs of the feed pipeline.                                              *)
(***************************************************************************)
\* the service, imported with no data file and serving refreshes; the disk
\* takes every write
ServiceInit ==
    /\ now = 0
    /\ s3_client = FALSE
    /\ frames = [r \in RunIds |-> NoFrame]
    /\ LambdaIdle
    /\ FeedIdle
    /\ UnitIdle

\* one run of scripts/fetch_news.py
ScriptInit ==
    /\ now = 0
    /\ s3_client = FALSE
    /\ frames = [r \in RunIds |-> NoFrame]
    /\ LambdaIdle
    /\ feed_pc = "script"
    /\ FeedAtRest
    /\ service_articles = <<>>
    /\ service_last_updated = UtcNow(0)
    /\ data_file = NoFile
    /\ frontend_file = NoFile
    /\ fetch_result = NoFetchResult
    /\ UnitIdle

FeedInit == ServiceInit \/ ScriptInit

FeedNext ==
    \/ StartRefresh
    \/ \E resps \in [FeedIds -> Responses] : FetchAll(resps)
    \/ \E resps \in [FeedIds -> Responses] : Publish(resps, FALSE, FALSE)
    \/ \E resps \in [FeedIds -> Responses] : ScriptFetchAll(resps)
    \/ \E frontend_fails, backend_fails \in BOOLEAN :
          ScriptWrite(frontend_fails, backend_fails)
    \/ Tick

FeedSpec == FeedInit /\ [][FeedNext]_vars

(***************************************************************************)
(* Storage that fails: what a start or a run finds persisted, and reads    *)
(* and writes that raise.                                                  *)
(***************************************************************************)
\* what a Lambda run may find at S3_BUCKET/S3_KEY: no object, an empty
\* collection, a collection, valid JSON whose "articles" holds a non-object
StoredObjects ==
    { NoObject,
      S3Object(UtcNow(0), <<>>),
      S3Object(UtcNow(0),
               <<Article(<<"C">>, UrlA3, <<"N">>, Stamp(0, "+00:00"))>>),
      S3Object(UtcNow(0), <<NotADict>>) }

\* what the service may find at data/articles.json when it is imported
StoredFiles ==
    { NoFile,
      File(UtcNow(0), <<>>),
      File(UtcNow(0),
           <<FeedArticle(<<"K">>, HttpUrl(UrlA3), "NHK", Stamp(0, "+00:00"))>>),
      File(UtcNow(0), <<NotADict>>) }

\* what a GET comes to while the storage is under study: a timeout or a
\* document of one entry
StorageResponses ==
    { Response("timeout", "ReadTimeout", 0, FALSE, <<>>),
      Response("none", "", 200, FALSE,
               <<FeedEntry(<<"K">>, UrlA1Query, Converts(Stamp(1, "")), Absent)>>) }

\* a Lambda deployment: the service is not there
LambdaStorageInit ==
    /\ now = 0
    /\ s3_client = TRUE
    /\ frames = [r \in RunIds |-> NoFrame]
    /\ s3 \in StoredObjects
    /\ pc = "idle"
    /\ existing_articles = <<>>
    /\ results = [k \in KeywordIds |-> NoResult]
    /\ all_articles = <<>>
    /\ stats = NoStats
    /\ merged_articles = <<>>
    /\ response = NoResponse
    /\ feed_pc = "none"
    /\ FeedAtRest
    /\ service_articles = <<>>
    /\ service_last_updated = UtcNow(0)
    /\ data_file = NoFile
    /\ frontend_file = NoFile
    /\ fetch_result = NoFetchResult
    /\ UnitIdle

\* the service about to be imported: the Lambda is not there
ServiceStorageInit ==
    /\ now = 0
    /\ s3_client = FALSE
    /\ frames = [r \in RunIds |-> NoFrame]
    /\ s3 = NoObject
    /\ pc = "none"
    /\ existing_articles = <<>>
    /\ results = [k \in KeywordIds |-> NoResult]
    /\ all_articles = <<>>
    /\ stats = NoStats
    /\ merged_articles = <<>>
    /\ response = NoResponse
    /\ feed_pc = "import"
    /\ FeedAtRest
    /\ service_articles = <<>>
    /\ service_last_updated = UtcNow(0)
    /\ data_file \in StoredFiles
    /\ frontend_file = NoFile
    /\ fetch_result = NoFetchResult
    /\ UnitIdle

StorageInit == LambdaStorageInit \/ ServiceStorageInit

StorageNext ==
    \/ \E failure \in BOOLEAN : Load(failure)
    \/ \E k \in KeywordIds, outcome \in FetchOutcomes : FetchKeyword(k, outcome)
    \/ Collect
    \/ Merge
    \/ \E failure \in BOOLEAN : Upload(failure)
    \/ \E failure \in BOOLEAN : ServiceStart(failure)
    \/ StartRefresh
    \/ \E resps \in [FeedIds -> StorageResponses] : FetchAll(resps)
    \/ \E resps \in [FeedIds -> StorageResponses],
          save_fails, export_fails \in BOOLEAN :
          Publish(resps, save_fails, export_fails)

StorageSpec == StorageInit /\ [][StorageNext]_vars

(***************************************************************************)
(* One orchestrated run, task by task: the handler's fetch_all_keywords    *)
(* and the fetcher's fetch_all. Every fetch answers or times out.          *)
(***************************************************************************)
\* the handler outside Lambda (no S3 client)
LambdaGatherInit ==
    /\ now = 0
    /\ s3_client = FALSE
    /\ frames = [r \in RunIds |-> NoFrame]
    /\ LambdaIdle
    /\ feed_pc = "none"
    /\ FeedAtRest
    /\ service_articles = <<>>
    /\ service_last_updated = UtcNow(0)
    /\ data_file = NoFile
    /\ frontend_file = NoFile
    /\ fetch_result = NoFetchResult
    /\ UnitIdle

\* the fetcher, idle
FeedGatherInit ==
    /\ now = 0
    /\ s3_client = FALSE
    /\ frames = [r \in RunIds |-> NoFrame]
    /\ s3 = NoObject
    /\ pc = "none"
    /\ existing_articles = <<>>
    /\ results = [k \in KeywordIds |-> NoResult]
    /\ all_articles = <<>>
    /\ stats = NoStats
    /\ merged_articles = <<>>
    /\ response = NoResponse
    /\ FeedIdle
    /\ UnitIdle

GatherInit == LambdaGatherInit \/ FeedGatherInit

\* what one GET of a keyword feed comes to while the orchestration is under
\* study: a failure, or a document of at most one entry
GatherOutcomes == {o \in FetchOutcomes : Len(o.entries) <= 1}

GatherNext ==
    \/ \E failure \in BOOLEAN : Load(failure)
    \/ \E k \in KeywordIds, outcome \in GatherOutcomes : FetchKeyword(k, outcome)
    \/ Collect
    \/ Merge
    \/ \E failure \in BOOLEAN : Upload(failure)
    \/ StartFetchAll
    \/ \E f \in FeedIds, response_ \in StorageResponses :
          FetchFeedTask(f, response_)
    \/ FetchAllReturn

\* every fetch answers or hits its timeout (the timeout of a pending task
\* fires unless the task completes otherwise), and the code between the
\* awaits runs on
GatherFairness ==
    /\ \A k \in KeywordIds :
          WF_vars(FetchKeyword(k, FetchOutcome("timeout", <<>>)))
    /\ WF_vars(Collect)
    /\ WF_vars(Merge)
    /\ WF_vars(\E failure \in BOOLEAN : Upload(failure))
    /\ \A f \in FeedIds :
          WF_vars(FetchFeedTask(f, Response("timeout", "ReadTimeout", 0,
                                            FALSE, <<>>)))
    /\ WF_vars(FetchAllReturn)

GatherSpec == GatherInit /\ [][GatherNext]_vars /\ GatherFairness

(***************************************************************************)
(* Overlapping runs.                                                       *)
(***************************************************************************)
\* what one GET of a keyword feed comes to in an overlapping run: a timeout
\* or a document of one entry
OverlapOutcomes ==
    { FetchOutcome("timeout", <<>>),
      FetchOutcome("ok", <<Entry(<<"B">>, UrlA1, Rfc2822(2, "GMT"))>>),
      FetchOutcome("ok", <<Entry(<<"C">>, UrlA3, Iso8601(1, "-01:00"))>>) }

\* several invocations of the handler in Lambda, nothing persisted yet
LambdaOverlapInit ==
    /\ now = 0
    /\ s3_client = TRUE
    /\ frames = [r \in RunIds |-> NoFrame]
    /\ s3 = NoObject
    /\ pc = "overlapping"
    /\ existing_articles = <<>>
    /\ results = [k \in KeywordIds |-> NoResult]
    /\ all_articles = <<>>
    /\ stats = NoStats
    /\ merged_articles = <<>>
    /\ response = NoResponse
    /\ feed_pc = "none"
    /\ FeedAtRest
    /\ service_articles = <<>>
    /\ service_last_updated = UtcNow(0)
    /\ data_file = NoFile
    /\ frontend_file = NoFile
    /\ fetch_result = NoFetchResult
    /\ UnitIdle

\* the service, imported with no data file, serving several requests
ServiceOverlapInit ==
    /\ now = 0
    /\ s3_client = FALSE
    /\ frames = [r \in RunIds |-> NoFrame]
    /\ s3 = NoObject
    /\ pc = "none"
    /\ existing_articles = <<>>
    /\ results = [k \in KeywordIds |-> NoResult]
    /\ all_articles = <<>>
    /\ stats = NoStats
    /\ merged_articles = <<>>
    /\ response = NoResponse
    /\ feed_pc = "overlapping"
    /\ FeedAtRest
    /\ service_articles = <<>>
    /\ service_last_updated = UtcNow(0)
    /\ data_file = NoFile
    /\ frontend_file = NoFile
    /\ fetch_result = NoFetchResult
    /\ UnitIdle

OverlapInit == LambdaOverlapInit \/ ServiceOverlapInit

OverlapNext ==
    \/ \E r \in RunIds, failure \in BOOLEAN : RunLoad(r, failure)
    \/ \E r \in RunIds, outcome \in OverlapOutcomes : RunFetch(r, outcome)
    \/ \E r \in RunIds, failure \in BOOLEAN : RunUpload(r, failure)
    \/ \E r \in RunIds : RefreshStart(r)
    \/ \E r \in RunIds : RefreshFetchAll(r)
    \/ \E r \in RunIds, resps \in [FeedIds -> StorageResponses] :
          RefreshPublish(r, resps)
    \/ ListArticles("desc")
    \/ Tick

OverlapSpec == OverlapInit /\ [][OverlapNext]_vars

(***************************************************************************)
(* Single calls of the parsers and of fetch_feed.                          *)
(***************************************************************************)
UnitInit ==
    /\ now \in 0..MaxNow
    /\ s3_client = FALSE
    /\ frames = [r \in RunIds |-> NoFrame]
    /\ LambdaIdle
    /\ FeedIdle
    /\ call \in UnitCalls
    /\ ret = NoReturn

UnitNext ==
    \/ CallParseEntry
    \/ CallEntryDate
    \/ CallParseKeywordEntry
    \/ CallExtractSource
    \/ CallParsePubDate
    \/ CallParseRelativeDate
    \/ CallFetchFeed
    \/ CallFetchGoogleNewsRss
    \/ CallFilterArticles
    \/ CallFilterDedupeSort
    \/ CallSortArticles
    \/ CallGetArticles

UnitSpec == UnitInit /\ [][UnitNext]_vars

(***************************************************************************)
(* Properties of the feed pipeline.                                        *)
(***************************************************************************)
\* a URL with its query string and fragment removed
WithoutQueryAndFragment(u) == [u EXCEPT !.query = "", !.fragment = ""]

\* the collections the feed pipeline has published: the one the service
\* serves and the two files
PublishedCollections ==
    {service_articles, data_file.articles, frontend_file.articles}

\* C1 as stated: no published collection holds two articles whose URLs are
\* equal after stripping query string and fragment.
C1_UniqueStrippedUrls ==
    \A articles \in PublishedCollections :
        \A i, j \in DOMAIN articles :
            i # j => WithoutQueryAndFragment(articles[i].url)
                        # WithoutQueryAndFragment(articles[j].url)

\* C1, amended: no published collection holds two articles whose URL strings
\* are equal.
C1_UniqueUrlStrings ==
    \A articles \in PublishedCollections :
        \A i, j \in DOMAIN articles : i # j => articles[i].url # articles[j].url

\* the script has fetched the same URL from two feeds and written one article
C1_Witness ==
    /\ feed_pc = "exit"
    /\ frontend_file.exists
    /\ data_file.exists
    /\ \A f \in FeedIds : Len(feed_results[f].articles) = 1
    /\ \A f, g \in FeedIds :
          feed_results[f].articles[1].url = feed_results[g].articles[1].url
    /\ Len(frontend_file.articles) = 1
    /\ data_file.articles = frontend_file.articles

(***************************************************************************)
(* Properties of the parsers and of fetch_feed.                            *)
(***************************************************************************)
\* the date fields of a feed entry
DateFieldsOf(entry) ==
    {entry.published_parsed, entry.updated_parsed, entry.created_parsed,
     entry.published, entry.updated, entry.created}

\* C8: an entry with non-empty title and link (a link the Article model takes)
\* none of whose date fields parses becomes an article published at the
\* current UTC time, on the feed path and on the keyword path.
C8_UnparseableDateKept ==
    /\ (call.fn = "_parse_entry" /\ ret.done
        /\ Strip(call.arg.title) # <<>> /\ call.arg.link # NoUrl
        /\ HttpUrlValid(call.arg.link)
        /\ \A f \in DateFieldsOf(call.arg) : f.kind # "ok")
       => /\ ret.value.some
          /\ ret.value.article.published_at = UtcNow(now)
    /\ (call.fn = "fetch_google_news_rss.entry" /\ ret.done
        /\ Strip(call.arg.title) # <<>> /\ call.arg.link # NoUrl
        /\ call.arg.published = NotADate)
       => /\ Len(ret.value) = 1
          /\ ret.value[1].publishedAt = UtcNow(now)

\* the calls of the date normalizers
DateNormalizers == {"_parse_entry.date", "parse_pub_date", "parse_relative_date"}

\* C9: no date normalizer raises; each returns a timestamp, the current time
\* when no format yields a date.
C9_DateNormalizersNeverRaise ==
    (call.fn \in DateNormalizers /\ ret.done) =>
        /\ ret.raised = ""
        /\ (call.fn = "_parse_entry.date"
            /\ \A f \in DateFieldsOf(call.arg) : f.kind # "ok")
           => ret.value = UtcNow(now)
        /\ (call.fn = "parse_pub_date" /\ call.arg = NotADate)
           => ret.value = UtcNow(now)
        /\ (call.fn = "parse_relative_date" /\ call.arg = Unrecognized)
           => ret.value = ClockLess(now, TimeDelta(0, ""))

\* C10: fetch_feed returns (articles, status) for every outcome: no articles
\* and success=false with error "Timeout" for a timeout, "HTTP <code>" for a
\* non-2xx response and the exception text for any other failure; on success
\* success=true, no error and article_count = len(articles).
C10_FetchFeedClassifies ==
    (call.fn = "fetch_feed" /\ ret.done) =>
        LET r == call.arg
            articles == ret.value.articles
            status == ret.value.status
            failed == \/ r.raised # "none"
                      \/ r.status_code \notin 200..299
                      \/ r.bozo /\ r.entries = <<>>
        IN /\ ret.raised = ""
           /\ status.name = RSS_FEEDS[1].name
           /\ status.url = RSS_FEEDS[1].url
           /\ status.success = ~failed
           /\ failed => /\ articles = <<>>
                        /\ status.article_count = 0
                        /\ status.error.tag # "none"
           /\ r.raised = "timeout" => status.error = TimeoutError
           /\ r.raised \notin {"none", "timeout"}
                 => status.error = ExceptionText(r.text)
           /\ (r.raised = "none" /\ r.status_code \notin 200..299)
                 => status.error = HttpError(r.status_code)
           /\ (r.raised = "none" /\ r.status_code \in 200..299 /\ failed)
                 => status.error.tag = "text"
           /\ ~failed => /\ status.error = NoError
                         /\ status.article_count = Len(articles)
                         /\ Len(articles) <= max_articles_per_source

\* a 500 response carrying a parseable document is reported as "HTTP 500"
C10_Witness ==
    /\ call.fn = "fetch_feed"
    /\ ret.done
    /\ call.arg.status_code = 500
    /\ call.arg.entries # <<>>
    /\ ret.value.articles = <<>>
    /\ ret.value.status.error = HttpError(500)

(***************************************************************************)
(* Properties of the merge stage.                                          *)
(***************************************************************************)
\* two articles are one identity for the merge: same normalized URL or same
\* lowercased title
SameIdentity(a, b) ==
    \/ normalize_url(a.url) = normalize_url(b.url)
    \/ Lower(a.title) = Lower(b.title)

\* the elements of s at the positions in A, in order
SubsequenceAt(s, A) ==
    LET nth == [k \in 1..Cardinality(A) |->
                  CHOOSE i \in A : Cardinality({j \in A : j < i}) = k - 1]
    IN [k \in 1..Cardinality(A) |-> s[nth[k]]]

\* A is the set of positions of the batch whose identity is unseen among the
\* existing articles and among the positions of A before it
IsAcceptedSet(A, existing, batch) ==
    \A i \in DOMAIN batch :
        i \in A <=>
            /\ \A e \in Range(existing) : ~SameIdentity(e, batch[i])
            /\ \A j \in A : j < i => ~SameIdentity(batch[j], batch[i])

\* the merged list before the cap is applied
BeforeCap == MergeUnsorted(existing_articles, all_articles)

\* C2: the persisted collection never holds two articles with the same
\* normalized URL, nor two with the same lowercased title.
C2_PersistedUnique ==
    \A i, j \in DOMAIN s3.articles :
        i # j =>
            /\ normalize_url(s3.articles[i].url) # normalize_url(s3.articles[j].url)
            /\ Lower(s3.articles[i].title) # Lower(s3.articles[j].title)

\* a run that loaded a non-empty collection, fetched more than it added, and
\* persisted at least two articles
C2_Witness ==
    /\ s3.present
    /\ Len(s3.articles) >= 2
    /\ response.uploaded
    /\ response.existing_articles >= 1
    /\ response.stats.total_fetched >= 2
    /\ response.merged_total < response.existing_articles + response.stats.total_fetched

\* C3: merge_articles appends, in batch order, exactly the new articles whose
\* normalized URL and lowercased title are both unseen among the existing
\* articles and the new articles accepted before them; of two new articles
\* with one normalized URL the later one is never added, and the earlier one
\* is added whenever nothing before it shares its identity.
C3_AppendsUnseenInOrder ==
    pc = "upload" =>
        /\ \E A \in SUBSET DOMAIN all_articles :
              /\ IsAcceptedSet(A, existing_articles, all_articles)
              /\ MergeAppended(existing_articles, all_articles)
                     = SubsequenceAt(all_articles, A)
              /\ \A i, j \in DOMAIN all_articles :
                    (i < j /\ normalize_url(all_articles[i].url)
                                = normalize_url(all_articles[j].url))
                    => ~(i \in A /\ j \in A)
        /\ Len(merged_articles)
              = Min(MAX_ARTICLES,
                    Len(existing_articles)
                      + Len(MergeAppended(existing_articles, all_articles)))

\* https://a/1?ref=xyz is appended and a later https://a/1 of the same batch
\* is not
C3_Witness ==
    /\ pc = "upload"
    /\ \E i, j \in DOMAIN all_articles :
          /\ i < j
          /\ all_articles[i].url = UrlA1Query
          /\ all_articles[j].url = UrlA1
          /\ Lower(all_articles[i].title) # Lower(all_articles[j].title)
          /\ all_articles[i] \in Range(MergeAppended(existing_articles, all_articles))
          /\ all_articles[j] \notin Range(MergeAppended(existing_articles, all_articles))

\* C4: the result is at least as long as existing when the merged list does
\* not exceed the cap, and never shorter than min(len(existing), cap).
C4_MergeMonotonic ==
    pc = "upload" =>
        /\ Len(BeforeCap) <= MAX_ARTICLES
              => Len(merged_articles) >= Len(existing_articles)
        /\ Len(merged_articles) >= Min(Len(existing_articles), MAX_ARTICLES)

\* an existing list longer than the cap, holding a duplicate identity, merged
\* with a batch that adds an article
C4_Witness ==
    /\ pc = "upload"
    /\ Len(existing_articles) > MAX_ARTICLES
    /\ \E i, j \in DOMAIN existing_articles :
          i # j /\ SameIdentity(existing_articles[i], existing_articles[j])
    /\ MergeAppended(existing_articles, all_articles) # <<>>
    /\ Len(merged_articles) = MAX_ARTICLES

\* position i of the list before the cap is among the newest cap items by
\* publish instant whatever the order of ties: fewer than cap other positions
\* are as new or newer
AmongNewest(i) ==
    Cardinality({j \in DOMAIN BeforeCap :
                    j # i /\ Instant(BeforeCap[j].publishedAt)
                               >= Instant(BeforeCap[i].publishedAt)})
        < MAX_ARTICLES

\* C5: every existing article whose publish time is among the newest cap
\* items of the merged list is in the result; all existing articles are when
\* the merged list does not exceed the cap.
C5_ExistingPreserved ==
    pc = "upload" =>
        /\ \A i \in DOMAIN existing_articles :
              AmongNewest(i) => existing_articles[i] \in Range(merged_articles)
        /\ Len(BeforeCap) <= MAX_ARTICLES
              => Range(existing_articles) \subseteq Range(merged_articles)

\* C6: the result never exceeds the cap, and no dropped article is more
\* recent than a retained one.
C6_CapDropsOldest ==
    pc = "upload" =>
        /\ Len(merged_articles) <= MAX_ARTICLES
        /\ \A d \in Range(BeforeCap) \ Range(merged_articles) :
              \A r \in Range(merged_articles) :
                  Instant(d.publishedAt) <= Instant(r.publishedAt)

\* C7: the result is in descending order of publish instant.
C7_SortedByInstant ==
    pc = "upload" =>
        \A i \in 1..(Len(merged_articles) - 1) :
            Instant(merged_articles[i].publishedAt)
                >= Instant(merged_articles[i + 1].publishedAt)

(***************************************************************************)
(* Properties of one run of the feed pipeline.                             *)
(***************************************************************************)
\* sum of the article counts of a list of feed statuses
RECURSIVE ArticleCountSum(_)
ArticleCountSum(statuses) ==
    IF statuses = <<>> THEN 0
    ELSE Head(statuses).article_count + ArticleCountSum(Tail(statuses))

\* C11: in the result of a refresh_articles run, a source reported with
\* success=false has no article in the collection the run published, and the
\* articles the run collected are those of the sources reported successful
\* (each source being fetched once, the run's total is the sum of the
\* reported article counts).
C11_FailedSourceContributesNothing ==
    fetch_result.returned =>
        /\ \A f \in FeedIds :
              ~fetch_result.feed_statuses[f].success
                 => \A a \in Range(service_articles) : a.source # RSS_FEEDS[f].name
        /\ fetch_result.total_articles = ArticleCountSum(fetch_result.feed_statuses)

(***************************************************************************)
(* Properties of the keyword orchestrator.                                 *)
(***************************************************************************)
\* the keywords whose fetch failed in the run under way
FailedKeywords == {k \in KeywordIds : results[k].failed}

\* C12: when fetch_all_keywords returns, every keyword whose fetch failed is
\* counted in failed_fetches and not in successful_fetches, has contributed no
\* article, and the articles of the other keywords are all collected.
C12_FailedKeywordCounted ==
    pc = "merge" =>
        /\ stats.failed_fetches = Cardinality(FailedKeywords)
        /\ stats.successful_fetches = Cardinality(KeywordIds \ FailedKeywords)
        /\ \A k \in FailedKeywords : results[k].articles = <<>>
        /\ all_articles = Flatten([k \in KeywordIds |-> results[k].articles])

(***************************************************************************)
(* Properties of the persisted collection across runs.                     *)
(***************************************************************************)
\* an article published at ts may have left a collection through the cap:
\* the collection is full and holds nothing older than ts
DisplacedByCap(ts, kept, cap) ==
    /\ Len(kept) = cap
    /\ \A i \in DOMAIN kept : Instant(kept[i]) >= Instant(ts)

\* C13: a step that writes the persisted collection (the S3 object of the
\* Lambda handler, the data file of the service) removes an article from it
\* only through the cap: whatever the run met (a failed source, a failed load,
\* an empty fetch), an article that is gone was outside the newest cap items.
C13_OnlyCapRemoves ==
    [][/\ \A a \in Range(s3.articles) :
             a \notin Range(s3'.articles)
                => DisplacedByCap(a.publishedAt,
                                  [i \in DOMAIN s3'.articles |->
                                      s3'.articles[i].publishedAt],
                                  MAX_ARTICLES)
       /\ \A a \in Range(data_file.articles) :
             a \notin Range(data_file'.articles)
                => DisplacedByCap(a.published_at,
                                  [i \in DOMAIN data_file'.articles |->
                                      data_file'.articles[i].published_at],
                                  max_total_articles)]_vars

(***************************************************************************)
(* Properties of the list operations of the feed pipeline.                 *)
(***************************************************************************)
\* the keyword kw is written, in any case, at position i of the title
WrittenAt(kw, title, i) ==
    /\ i + Len(kw) - 1 <= Len(title)
    /\ \A j \in 1..Len(kw) : LowerChar(title[i + j - 1]) = LowerChar(kw[j])

\* some configured keyword occurs in the title, case-insensitively
MentionsKeyword(a) ==
    \E kw \in filter_keywords : \E i \in 1..Len(a.title) : WrittenAt(kw, a.title, i)

\* C14: filter_articles returns, in their order, exactly the articles whose
\* title holds a configured keyword as a substring, compared
\* case-insensitively.
C14_FilterKeepsKeywordTitles ==
    (call.fn = "filter_articles" /\ ret.done) =>
        ret.value = SubsequenceAt(call.arg,
                                  {i \in DOMAIN call.arg : MentionsKeyword(call.arg[i])})

\* a list of which the filter kept a title holding a keyword in another case
\* inside it and dropped an unrelated one
C14_Witness ==
    /\ call.fn = "filter_articles"
    /\ ret.done
    /\ \E a \in Range(ret.value) : a.title = <<"a", "k", "b">>
    /\ \E a \in Range(call.arg) : a.title = <<"C">>
    /\ \A a \in Range(ret.value) : a.title # <<"C">>
    /\ Len(ret.value) >= 2

\* C15: the filter/dedupe/sort stage applied to its own output returns that
\* output unchanged, ties in publish time included.
C15_StageIdempotent ==
    (call.fn = "filter_dedupe_sort" /\ ret.done) =>
        FilterDedupeSort(ret.value) = ret.value

\* a list with a repeated URL that the stage shortened and reordered, whose
\* output holds two articles of one publish instant
C15_Witness ==
    /\ call.fn = "filter_dedupe_sort"
    /\ ret.done
    /\ Len(ret.value) < Len(call.arg)
    /\ ret.value # SubSeq(call.arg, 1, Len(ret.value))
    /\ \E i, j \in DOMAIN call.arg : i # j /\ call.arg[i].url = call.arg[j].url
    /\ \E i \in 1..(Len(ret.value) - 1) :
          /\ ret.value[i] # ret.value[i + 1]
          /\ Instant(ret.value[i].published_at) = Instant(ret.value[i + 1].published_at)

\* the positions of the list get_articles sorts: the articles of the source
\* and with the query in the title, when those are given
Selected(articles, source, search_query) ==
    {i \in DOMAIN articles :
        /\ source # "" => articles[i].source = source
        /\ search_query # <<>> =>
              \E k \in 1..Len(articles[i].title) :
                  WrittenAt(search_query, articles[i].title, k)}

\* out is a stable sort of in by publish instant: some one-to-one
\* arrangement of the positions of in gives out, adjacent pairs are in order,
\* and articles of one instant keep their input order
StableSorted(in, out, descending) ==
    /\ Len(out) = Len(in)
    /\ \E pi \in [DOMAIN out -> DOMAIN in] :
          /\ \A k, l \in DOMAIN out : k # l => pi[k] # pi[l]
          /\ \A k \in DOMAIN out : out[k] = in[pi[k]]
          /\ \A k, l \in DOMAIN out :
                (k < l /\ Instant(out[k].published_at) = Instant(out[l].published_at))
                   => pi[k] < pi[l]
    /\ \A k \in 1..(Len(out) - 1) :
          IF descending
          THEN Instant(out[k].published_at) >= Instant(out[k + 1].published_at)
          ELSE Instant(out[k].published_at) <= Instant(out[k + 1].published_at)

\* C16: sort_articles and get_articles return a permutation of the list they
\* sort, non-increasing in published_at in descending mode and non-decreasing
\* in ascending mode, articles of equal published_at keeping their input
\* order in both modes.
C16_SortStablePermutation ==
    /\ (call.fn = "sort_articles" /\ ret.done)
          => StableSorted(call.arg.articles, ret.value, call.arg.descending)
    /\ (call.fn = "get_articles" /\ ret.done)
          => StableSorted(SubsequenceAt(call.arg.articles,
                                        Selected(call.arg.articles, call.arg.source,
                                                 call.arg.search_query)),
                          ret.value, call.arg.sort_order = "desc")

\* an ascending get_articles over three articles, two of one instant, that
\* came in another order
C16_Witness ==
    /\ call.fn = "get_articles"
    /\ ret.done
    /\ call.arg.sort_order = "asc"
    /\ call.arg.source = ""
    /\ call.arg.search_query = <<>>
    /\ Len(ret.value) = 3
    /\ ret.value # call.arg.articles
    /\ \E i \in 1..2 :
          /\ ret.value[i] # ret.value[i + 1]
          /\ Instant(ret.value[i].published_at) = Instant(ret.value[i + 1].published_at)

(***************************************************************************)
(* Properties of failing storage.                                          *)
(***************************************************************************)
\* C17: a failure to load the persisted collection (missing file or key,
\* unreadable or corrupt content) never aborts the run or the service start:
\* the loaded collection holds articles only (it is empty when the load
\* failed), the service comes up with such a collection, and the handler
\* never answers 500.
C17_LoadFailureNeverAborts ==
    /\ ~Malformed(existing_articles)
    /\ ~Malformed(service_articles)
    /\ response.statusCode # 500

\* C18: a failure to write the persisted collection is reported inside the
\* run's result and is neither retried nor rolled back: the step that writes
\* ends the run, the Lambda's response (200) tells whether the object was
\* written and the object is the old one when it was not, and
\* refresh_articles returns its FetchResult whether or not the files were
\* written.
C18_WriteFailureReported ==
    [][/\ pc = "upload" =>
            /\ pc' = "idle"
            /\ response'.statusCode = 200
            /\ response'.merged_total = Len(merged_articles)
            /\ response'.uploaded => s3' = S3Object(UtcNow(now), merged_articles)
            /\ ~response'.uploaded => s3' = s3
       /\ feed_pc = "refetch" =>
            /\ feed_pc' = "idle"
            /\ fetch_result'.returned]_vars

(***************************************************************************)
(* Properties of the entry normalizers.                                    *)
(***************************************************************************)
\* the entry has a non-empty trimmed title and a non-empty trimmed link
HasTitleAndLink(entry) == Strip(entry.title) # <<>> /\ entry.link # NoUrl

\* keys holds one key per index of kept, in the order of the indices:
\* expected[i] for index i
OnePerKept(keys, expected, kept) ==
    /\ Len(keys) = Cardinality(kept)
    /\ \A i \in kept : keys[Cardinality({j \in kept : j <= i})] = expected[i]

\* the feed document of a fetch_feed call was parsed
DocumentParsed(r) ==
    /\ r.raised = "none"
    /\ r.status_code >= 200 /\ r.status_code <= 299
    /\ ~(r.bozo /\ r.entries = <<>>)

DateFieldsInOrder(entry) ==
    <<entry.published_parsed, entry.updated_parsed, entry.created_parsed,
      entry.published, entry.updated, entry.created>>

\* the publish time a usable field gives: a structured tuple is read as UTC,
\* a string keeps its offset (UTC when it has none)
PublishTimeOf(fields, i) ==
    IF i <= 3 \/ fields[i].value.off = ""
    THEN Stamp(fields[i].value.local, "+00:00")
    ELSE fields[i].value

\* C20: the publish time is taken from the first usable field in the order
\* published_parsed, updated_parsed, created_parsed, published, updated,
\* created; a field that is absent or fails to convert is passed over in
\* favour of the next one.
C20_FirstUsableFieldWins ==
    (call.fn = "_parse_entry.date" /\ ret.done) =>
        LET fields == DateFieldsInOrder(call.arg)
            usable == {i \in DOMAIN fields : fields[i].kind = "ok"}
        IN usable # {} =>
              /\ ret.raised = ""
              /\ ret.value = PublishTimeOf(fields,
                                 CHOOSE i \in usable : \A j \in usable : i <= j)

(***************************************************************************)
(* Properties of extract_source_from_title and of the per-source cap.      *)
(***************************************************************************)
\* " - " starts at position i of title
HasSeparatorAt(title, i) ==
    /\ i >= 1 /\ i + 2 <= Len(title)
    /\ title[i] = " " /\ title[i + 1] = "-" /\ title[i + 2] = " "

\* C21: extract_source_from_title splits a title on the last " - ": the
\* trimmed part before it is the title, the trimmed part after it the source;
\* a title without " - " comes back unchanged with source "Google News"; for
\* a non-empty trimmed input both fields are non-empty.
C21_SplitsOnLastSeparator ==
    (call.fn = "extract_source_from_title" /\ ret.done) =>
        LET title == call.arg
            found == {i \in 1..Len(title) : HasSeparatorAt(title, i)}
        IN /\ ret.raised = ""
           /\ found # {} =>
                 \E i \in found :
                    /\ \A j \in found : j <= i
                    /\ ret.value.title = Strip(SubSeq(title, 1, i - 1))
                    /\ ret.value.source = Strip(SubSeq(title, i + 3, Len(title)))
           /\ found = {} =>
                 /\ ret.value.title = title
                 /\ ret.value.source = GoogleNews
           /\ (title # <<>> /\ Strip(title) = title) =>
                 /\ ret.value.title # <<>>
                 /\ ret.value.source # <<>>

\* a trimmed title holding " - " twice was split on the second
C21_Witness ==
    /\ call.fn = "extract_source_from_title"
    /\ ret.done
    /\ call.arg = <<"K", " ", "-", " ", "B", " ", "-", " ", "N">>
    /\ ret.value.title = <<"K", " ", "-", " ", "B">>
    /\ ret.value.source = <<"N">>

\* C22: no single source contributes more than max_articles_per_source
\* articles to one run, however many entries its feed returns: neither a
\* feed through fetch_feed nor a keyword through fetch_google_news_rss.
C22_PerSourceCap ==
    /\ (call.fn = "fetch_feed" /\ ret.done)
          => /\ Len(ret.value.articles) <= max_articles_per_source
             /\ ret.value.status.article_count <= max_articles_per_source
    /\ (call.fn = "fetch_google_news_rss" /\ ret.done)
          => Len(ret.value) <= max_articles_per_source

(***************************************************************************)
(* Properties of one orchestrated run.                                     *)
(***************************************************************************)
\* the step in which fetch_all_keywords reads the results of its gather
\* finds every task done (so every fetch was started and has completed or
\* failed), counts one outcome per keyword and takes the articles in the
\* order of SEARCH_KEYWORDS
KeywordResultsReadWhenAllDone ==
    (pc = "fetch" /\ pc' = "merge") =>
        /\ \A k \in KeywordIds : results[k].done
        /\ stats'.keywords_searched = Len(SEARCH_KEYWORDS)
        /\ stats'.successful_fetches + stats'.failed_fetches
              = Len(SEARCH_KEYWORDS)
        /\ all_articles' = Flatten([k \in KeywordIds |-> results[k].articles])

\* the step in which fetch_all reads the results of its gather finds every
\* task done and returns one FeedStatus per feed, in the order of RSS_FEEDS
FeedResultsReadWhenAllDone ==
    (feed_pc = "gather" /\ feed_pc' = "idle") =>
        /\ \A f \in FeedIds : feed_statuses[f].done /\ feed_results[f].done
        /\ fetch_result'.returned
        /\ DOMAIN fetch_result'.feed_statuses = FeedIds
        /\ \A f \in FeedIds :
              /\ fetch_result'.feed_statuses[f] = feed_statuses[f].status
              /\ fetch_result'.feed_statuses[f].name = RSS_FEEDS[f].name

\* C23: in one orchestrated run the results are processed (and merging or
\* filtering starts) only after every one of the N fetches has completed or
\* failed, and, every fetch answering or hitting its timeout, the run
\* terminates with a result holding one outcome per configured keyword or
\* feed, in configuration order.
C23_GatherThenProcess ==
    /\ [][/\ KeywordResultsReadWhenAllDone
          /\ pc' = "upload" => pc = "merge"
          /\ FeedResultsReadWhenAllDone]_vars
    /\ (pc = "fetch") ~> (pc = "idle" /\ response.statusCode = 200)
    /\ (feed_pc = "gather") ~> (feed_pc = "idle" /\ fetch_result.returned)

\* fetch_all has returned after one feed failed and the other answered
C23_Witness ==
    /\ feed_pc = "idle"
    /\ fetch_result.returned
    /\ ~fetch_result.feed_statuses[1].success
    /\ fetch_result.feed_statuses[2].success
    /\ fetch_result.total_articles = 1

Served(articles, last_updated) ==
    [articles |-> get_articles(articles, "", "desc", <<>>),
     last_updated |-> last_updated]

\* the pairs (_articles, _last_updated) that one writer has set: the import
\* of the module with no data file, or a refresh_articles call that has
\* published
WrittenTogether ==
    {<<(<<>>), UtcNow(0)>>}
    \cup {<<frames[r].written, frames[r].written_at>> :
             r \in {q \in RunIds : frames[q].pc = "done"}}

\* C25: whatever refresh_articles calls are in flight, _articles and
\* _last_updated are always the pair set by one refresh (or by the initial
\* load), and list_articles answers with such a pair: never the list of one
\* refresh with the timestamp of another, never a partially built list.
C25_ListAndStampFromOneRefresh ==
    /\ feed_pc = "overlapping" =>
          <<service_articles, service_last_updated>> \in WrittenTogether
    /\ (call.fn = "list_articles" /\ ret.done) =>
          \E w \in WrittenTogether : ret.value = Served(w[1], w[2])

\* list_articles has answered with the list and the timestamp of a refresh
\* that published at tick 1, while another refresh is between its two gathers
C25_Witness ==
    /\ call.fn = "list_articles" /\ ret.done
    /\ ret.value.articles # <<>>
    /\ ret.value.last_updated = UtcNow(1)
    /\ \E r \in RunIds : frames[r].pc = "refetch"
    /\ \E r \in RunIds : frames[r].pc = "done" /\ frames[r].written_at = UtcNow(1)

====
